---- MODULE Spec2Model ----
(***************************************************************************)
(* Verification model of the UV-Vis data-analysis scripts                  *)
(*   src/Data Analysis/Curve Fitting & Machine Learning.py       ("CF")    *)
(*   src/Data Analysis/Background Correction for PRD Reader.py   ("BC")    *)
(*                                                                         *)
(* Floating-point numbers are modelled as exact rationals <<n, d>> with    *)
(* d > 0 in lowest terms, plus the three IEEE specials NaN = <<0, 0>>,     *)
(* +inf = <<1, 0>> and -inf = <<-1, 0>>.  Rounding is abstracted away.     *)
(***************************************************************************)
EXTENDS Integers, Sequences, FiniteSets, TLC

VARIABLES
    pc,                 \* position of the script run being modelled
    raw_df,             \* raw sample table handed to background correction
    plate_data,         \* plate-background table
    blank_index,        \* CF: index of the blank row
    final_plate,        \* CF separate_subtract_and_recombine result
    final_plate_bc,     \* BC separate_subtract_and_recombine result
    sample_spectrum,    \* observed spectrum handed to a fit (already sliced)
    styrene_spectrum,   \* styrene reference spectrum over the fitted range
    polystyrene_spectrum, \* polystyrene reference spectrum over the fitted range
    opt_result,         \* the OptimizeResult of the last scipy minimize call
    fit_result,         \* what the fit handed back to its caller
    r_squared,          \* R-squared of the fitted spectrum
    impl,               \* which file's process_samples runs: "CF" or "BC"
    deconvolution_method, \* CF: the method process_samples hands to fit_spectra
    data_df,            \* sample table handed to process_samples
    volumes_df,         \* volume table handed to process_samples
    range_start,        \* first index of the fitted range
    range_end,          \* index after the last one of the fitted range
    i,                  \* loop index of process_samples
    styrene_components_pred,
    styrene_components_actual,
    ps_components_pred,
    ps_components_actual,
    ref_slice,          \* history: the index interval the reference arrays hold
    fit_site,           \* history: the index intervals the last fit used
    x_train,            \* curve_fitting_lin_reg: training coefficients
    y_train,            \* curve_fitting_lin_reg: training concentrations
    x_test,             \* curve_fitting_lin_reg: held-out coefficients
    y_test,             \* curve_fitting_lin_reg: held-out concentrations
    regr_styrene,       \* the fitted styrene model
    regr_polystyrene,   \* the fitted polystyrene model
    y_pred,             \* predictions of the last linear_regression call
    metrics,            \* MSE and R-squared the last linear_regression call logged
    path,               \* the file a loader is called on
    loader,             \* the loader called: "load_data" or "load_data_new"
    wavelength_range,   \* <<start_wavelength, end_wavelength>> of load_data_new
    loaded,             \* what the loader call came to
    log,                \* the messages logged or printed so far
    saved,              \* BC main: the table written with to_csv
    files,              \* curve_fitting_lin_reg: the state of each input file
    env,                \* curve_fitting_lin_reg: what each local variable holds
    steps,              \* history: the steps a run has made, in order
    volumes,            \* the caller's ndarray handed to spectra_pca
    volumes_abs,        \* ml_screening, verify_models: the converted array
    call,               \* a call of a table helper: its name and arguments
    returned            \* what the call came to

corrVars == <<raw_df, plate_data, blank_index, final_plate, final_plate_bc>>
fitVars == <<sample_spectrum, styrene_spectrum, polystyrene_spectrum,
             opt_result, fit_result, r_squared>>
listVars == <<styrene_components_pred, styrene_components_actual,
              ps_components_pred, ps_components_actual>>
procVars == <<impl, deconvolution_method, data_df, volumes_df, range_start,
              range_end, i, listVars, ref_slice, fit_site>>
regVars == <<x_train, y_train, x_test, y_test, regr_styrene, regr_polystyrene,
             y_pred, metrics>>
helperVars == <<call, returned>>
loadVars == <<path, loader, wavelength_range, loaded, log, helperVars>>
runVars == <<saved, files, env, steps, volumes, volumes_abs>>
scriptVars == <<regVars, loadVars, runVars>>
vars == <<pc, corrVars, fitVars, procVars, scriptVars>>

\* a variable that holds no value yet, and one that holds the value v
Unset == <<>>
Returned(v) == <<v>>

----------------------------------------------------------------------------
(* Floats *)

Abs(n) == IF n < 0 THEN -n ELSE n

RECURSIVE Gcd(_, _)
Gcd(a, b) == IF b = 0 THEN a ELSE Gcd(b, a % b)

NaN == <<0, 0>>
Inf == <<1, 0>>
NegInf == <<-1, 0>>

F(n) == <<n, 1>>

\* the float with value n / d, d # 0
Norm(n, d) ==
    LET g == Gcd(Abs(n), Abs(d))
        s == IF d < 0 THEN -1 ELSE 1
    IN  <<(s * n) \div g, (s * d) \div g>>

IsNaN(x) == x = NaN
IsFinite(x) == x[2] # 0
Sign(x) == IF x[1] > 0 THEN 1 ELSE IF x[1] < 0 THEN -1 ELSE 0

FNeg(x) == <<-x[1], x[2]>>

FAdd(x, y) ==
    IF IsNaN(x) \/ IsNaN(y) THEN NaN
    ELSE IF ~IsFinite(x) /\ ~IsFinite(y) THEN (IF x = y THEN x ELSE NaN)
    ELSE IF ~IsFinite(x) THEN x
    ELSE IF ~IsFinite(y) THEN y
    ELSE LET g == Gcd(x[2], y[2])
         IN  Norm(x[1] * (y[2] \div g) + y[1] * (x[2] \div g),
                  (x[2] \div g) * y[2])

FSub(x, y) == FAdd(x, FNeg(y))

FMul(x, y) ==
    IF IsNaN(x) \/ IsNaN(y) THEN NaN
    ELSE IF ~IsFinite(x) \/ ~IsFinite(y)
         THEN (IF Sign(x) * Sign(y) = 0 THEN NaN ELSE <<Sign(x) * Sign(y), 0>>)
    ELSE LET g == Gcd(Abs(x[1]), y[2])
             h == Gcd(Abs(y[1]), x[2])
         IN  Norm((x[1] \div g) * (y[1] \div h), (x[2] \div h) * (y[2] \div g))

\* numpy float64 division: x / 0 gives nan or +-inf (with a RuntimeWarning), it
\* does not raise
FDiv(x, y) ==
    IF IsNaN(x) \/ IsNaN(y) THEN NaN
    ELSE IF ~IsFinite(x) /\ ~IsFinite(y) THEN NaN
    ELSE IF ~IsFinite(x) THEN (IF Sign(y) < 0 THEN FNeg(x) ELSE x)
    ELSE IF ~IsFinite(y) THEN F(0)
    ELSE IF y[1] = 0 THEN <<Sign(x), 0>>
    ELSE Norm(x[1] * y[2], x[2] * y[1])

\* x < y on finite floats
FLt(x, y) ==
    LET g == Gcd(x[2], y[2])
    IN  x[1] * (y[2] \div g) < y[1] * (x[2] \div g)
FLeq(x, y) == x = y \/ FLt(x, y)

----------------------------------------------------------------------------
(* DataFrames: [index, columns, dtypes, cell].  index is the sequence of   *)
(* row labels, columns the sequence of column labels, dtypes[c] is         *)
(* "number" or "object", cell[r][c] the value at row label r, column c.    *)

Range(s) == {s[k] : k \in 1..Len(s)}

\* the elements of b that are not in a, in b's order, appended to a
UnionSeq(a, b) == a \o SelectSeq(b, LAMBDA x : x \notin Range(a))

\* df.select_dtypes(include='number') / (exclude='number')
select_dtypes(df, numeric) ==
    LET keep == SelectSeq(df.columns,
                          LAMBDA c : (df.dtypes[c] = "number") = numeric)
    IN  [index |-> df.index,
         columns |-> keep,
         dtypes |-> [c \in Range(keep) |-> df.dtypes[c]],
         cell |-> [r \in Range(df.index) |-> [c \in Range(keep) |-> df.cell[r][c]]]]

separate_columns(df) ==
    [numeric_cols |-> select_dtypes(df, TRUE),
     non_numeric_cols |-> select_dtypes(df, FALSE),
     original_columns |-> df.columns]

\* the value of a at (r, c), or missing
Has(df, r, c) == r \in Range(df.index) /\ c \in Range(df.columns)

\* a - b with every missing operand taken as 0, whatever fill is
DfSubtractZeroFilled(a, b, fill) ==
    LET idx == UnionSeq(a.index, b.index)
        cols == UnionSeq(a.columns, b.columns)
        val(df, r, c) == IF Has(df, r, c) THEN df.cell[r][c] ELSE F(0)
    IN  [index |-> idx,
         columns |-> cols,
         dtypes |-> [c \in Range(cols) |-> "number"],
         cell |-> [r \in Range(idx) |-> [c \in Range(cols) |->
                     FSub(val(a, r, c), val(b, r, c))]]]

\* pandas flex arithmetic a - b: both axes are aligned on the union of the
\* labels; a cell missing (absent or NaN) on one side is fill (NaN when no
\* fill_value is given), a cell missing on both sides is NaN.
DfSubtract(a, b, fill) ==
    LET idx == UnionSeq(a.index, b.index)
        cols == UnionSeq(a.columns, b.columns)
        missing(df, r, c) == ~Has(df, r, c) \/ IsNaN(df.cell[r][c])
        val(df, r, c) == IF missing(df, r, c) THEN fill ELSE df.cell[r][c]
    IN  [index |-> idx,
         columns |-> cols,
         dtypes |-> [c \in Range(cols) |-> "number"],
         cell |-> [r \in Range(idx) |-> [c \in Range(cols) |->
                     IF missing(a, r, c) /\ missing(b, r, c) THEN NaN
                     ELSE FSub(val(a, r, c), val(b, r, c))]]]

\* pd.concat([left, right], axis=1): columns of left then of right, rows
\* aligned on the union of the row labels
concat_axis1(left, right) ==
    LET idx == UnionSeq(left.index, right.index)
        cols == left.columns \o right.columns
    IN  [index |-> idx,
         columns |-> cols,
         dtypes |-> [c \in Range(cols) |->
                       IF c \in Range(left.columns) THEN left.dtypes[c]
                       ELSE right.dtypes[c]],
         cell |-> [r \in Range(idx) |-> [c \in Range(cols) |->
                     IF Has(left, r, c) THEN left.cell[r][c]
                     ELSE IF Has(right, r, c) THEN right.cell[r][c]
                     ELSE NaN]]]

\* df.reindex(columns=cols): the columns named, in that order; a column df
\* does not have is all NaN
reindex_columns(df, cols) ==
    [index |-> df.index,
     columns |-> cols,
     dtypes |-> [c \in Range(cols) |->
                   IF c \in Range(df.columns) THEN df.dtypes[c] ELSE "number"],
     cell |-> [r \in Range(df.index) |-> [c \in Range(cols) |->
                 IF c \in Range(df.columns) THEN df.cell[r][c] ELSE NaN]]]

\* df.iloc[k] as a mapping column -> value (k is a 0-based position)
iloc_row(df, k) == df.cell[df.index[k + 1]]

----------------------------------------------------------------------------
(* Background correction, CF *)

recombine_data(numeric_data, non_numeric_data, original_columns) ==
    reindex_columns(concat_axis1(non_numeric_data, numeric_data), original_columns)

\* as separate_subtract_and_recombine, the blank row taken from the raw
\* table instead of the plate-corrected one
separate_subtract_and_recombine_raw_blank(raw, plate, blank) ==
    LET numeric_cols_raw == separate_columns(raw).numeric_cols
        plate_corrected_data ==
            DfSubtract(numeric_cols_raw, separate_columns(plate).numeric_cols, NaN)
        blank_row == iloc_row(numeric_cols_raw, blank)
        blank_corrected_data ==
            [plate_corrected_data EXCEPT !.cell =
                [r \in Range(plate_corrected_data.index) |->
                    [c \in Range(plate_corrected_data.columns) |->
                        FSub(plate_corrected_data.cell[r][c], blank_row[c])]]]
    IN  recombine_data(blank_corrected_data, separate_columns(raw).non_numeric_cols,
                       separate_columns(raw).original_columns)

separate_subtract_and_recombine(raw, plate, blank) ==
    LET numeric_cols_raw == separate_columns(raw).numeric_cols
        non_numeric_cols_raw == separate_columns(raw).non_numeric_cols
        original_columns_raw == separate_columns(raw).original_columns
        numeric_cols_plate == separate_columns(plate).numeric_cols
        plate_corrected_data == DfSubtract(numeric_cols_raw, numeric_cols_plate, NaN)
        blank_row == iloc_row(plate_corrected_data, blank)
        blank_corrected_data ==
            [plate_corrected_data EXCEPT !.cell =
                [r \in Range(plate_corrected_data.index) |->
                    [c \in Range(plate_corrected_data.columns) |->
                        FSub(plate_corrected_data.cell[r][c], blank_row[c])]]]
    IN  recombine_data(blank_corrected_data, non_numeric_cols_raw, original_columns_raw)

----------------------------------------------------------------------------
(* Background correction, BC *)

\* as subtract_background, nothing subtracted
subtract_background_skipped(numeric_raw, numeric_plate) == numeric_raw

subtract_background(numeric_raw, numeric_plate) ==
    DfSubtract(numeric_raw, numeric_plate, F(0))

\* as subtract_blank_row, the blank taken from the last row
subtract_blank_row_last(df) ==
    LET blank_row == [k \in 1..Len(df.columns) |->
                        df.cell[df.index[Len(df.index)]][df.columns[k]]]
        pos(c) == CHOOSE k \in 1..Len(df.columns) : df.columns[k] = c
    IN  [df EXCEPT !.cell =
            [r \in Range(df.index) |-> [c \in Range(df.columns) |->
                FSub(df.cell[r][c], blank_row[pos(c)])]]]

\* blank_row is the ndarray of row 0; row - blank_row is positional
subtract_blank_row(df) ==
    LET blank_row == [k \in 1..Len(df.columns) |-> df.cell[df.index[1]][df.columns[k]]]
        pos(c) == CHOOSE k \in 1..Len(df.columns) : df.columns[k] = c
    IN  [df EXCEPT !.cell =
            [r \in Range(df.index) |-> [c \in Range(df.columns) |->
                FSub(df.cell[r][c], blank_row[pos(c)])]]]

\* the reindex to original_columns is commented out in BC
recombine_data_bc(numeric_data, non_numeric_data, original_columns) ==
    concat_axis1(non_numeric_data, numeric_data)

separate_subtract_and_recombine_bc(raw, plate) ==
    LET numeric_cols_raw == separate_columns(raw).numeric_cols
        non_numeric_cols_raw == separate_columns(raw).non_numeric_cols
        original_columns_raw == separate_columns(raw).original_columns
        numeric_cols_plate == separate_columns(plate).numeric_cols
        plate_background_removed == subtract_background(numeric_cols_raw, numeric_cols_plate)
        blank_removed == subtract_blank_row(plate_background_removed)
    IN  recombine_data_bc(blank_removed, non_numeric_cols_raw, original_columns_raw)

----------------------------------------------------------------------------
\* the variables of the calibration step, in a run that does not reach it
RegIdle ==
    /\ x_train = Unset /\ y_train = Unset /\ x_test = Unset /\ y_test = Unset
    /\ regr_styrene = Unset /\ regr_polystyrene = Unset
    /\ y_pred = Unset /\ metrics = Unset

\* the variables of a loader call, in a run that makes none
LoadIdle ==
    /\ path = Unset /\ loader = "" /\ wavelength_range = Unset
    /\ loaded = Unset /\ log = <<>>
    /\ call = Unset /\ returned = Unset

\* the variables of a whole script run, outside one
RunIdle ==
    /\ saved = Unset /\ files = Unset /\ env = Unset /\ steps = <<>>
    /\ volumes = Unset /\ volumes_abs = Unset

ScriptIdle == RegIdle /\ LoadIdle /\ RunIdle

\* the variables of background correction and of a fit, in a run without them
CorrIdle ==
    /\ raw_df = Unset /\ plate_data = Unset /\ blank_index = 0
    /\ final_plate = Unset /\ final_plate_bc = Unset

FitIdle ==
    /\ sample_spectrum = Unset /\ styrene_spectrum = Unset
    /\ polystyrene_spectrum = Unset /\ opt_result = Unset
    /\ fit_result = Unset /\ r_squared = Unset

\* the variables of process_samples, in a run that does not call it
ProcIdle ==
    /\ impl = "CF" /\ deconvolution_method = "least_squares_deconvolution"
    /\ data_df = Unset /\ volumes_df = Unset
    /\ range_start = 0 /\ range_end = 0 /\ i = 0
    /\ styrene_components_pred = <<>> /\ styrene_components_actual = <<>>
    /\ ps_components_pred = <<>> /\ ps_components_actual = <<>>
    /\ ref_slice = Unset /\ fit_site = Unset

----------------------------------------------------------------------------
(* Inputs of the background-correction runs *)

NumRows == 2
Wavelengths == <<"220", "221">>
RawValues == {1, 3}
PlateValues == {0, 1}
WellNames == <<"A1", "A2", "A3", "A4">>

RowLabels == [k \in 1..NumRows |-> k - 1]

\* the column orders of a table with one identifier column among the
\* wavelength columns
InsertAt(s, k, x) == SubSeq(s, 1, k - 1) \o <<x>> \o SubSeq(s, k, Len(s))
ColumnOrders == {InsertAt(Wavelengths, k, "Row/Col") : k \in 1..(Len(Wavelengths) + 1)}

Table(cols, values) ==
    [index |-> RowLabels,
     columns |-> cols,
     dtypes |-> [c \in Range(cols) |-> IF c = "Row/Col" THEN "object" ELSE "number"],
     cell |-> [r \in Range(RowLabels) |-> [c \in Range(cols) |->
                 IF c = "Row/Col" THEN WellNames[r + 1] ELSE F(values[r][c])]]]

Tables(cols, vals) ==
    {Table(cols, v) : v \in [Range(RowLabels) -> [Range(Wavelengths) -> vals]]}

InitCorrection ==
    /\ pc = "correction"
    /\ \E cols \in ColumnOrders :
          /\ raw_df \in Tables(cols, RawValues)
          /\ plate_data \in Tables(cols, PlateValues) \cup {raw_df}
    /\ blank_index \in 0..(NumRows - 1)
    /\ final_plate = Unset
    /\ final_plate_bc = Unset
    /\ sample_spectrum = Unset /\ styrene_spectrum = Unset
    /\ polystyrene_spectrum = Unset /\ opt_result = Unset
    /\ fit_result = Unset /\ r_squared = Unset
    /\ ProcIdle
    /\ ScriptIdle

CorrectCF ==
    /\ pc = "correction"
    /\ final_plate = Unset
    /\ final_plate' = Returned(separate_subtract_and_recombine(raw_df, plate_data, blank_index))
    /\ UNCHANGED <<scriptVars, pc, raw_df, plate_data, blank_index, final_plate_bc, fitVars, procVars>>

CorrectBC ==
    /\ pc = "correction"
    /\ final_plate_bc = Unset
    /\ final_plate_bc' = Returned(separate_subtract_and_recombine_bc(raw_df, plate_data))
    /\ UNCHANGED <<scriptVars, pc, raw_df, plate_data, blank_index, final_plate, fitVars, procVars>>

NextCorrection == CorrectCF \/ CorrectBC

SpecCorrection == InitCorrection /\ [][NextCorrection]_vars

----------------------------------------------------------------------------
(* Background correction of tables whose rows or wavelength columns differ *)

MismatchWavelengths == <<"220", "221", "222">>

\* the non-empty runs of consecutive wavelength columns
WavelengthRuns ==
    {SubSeq(MismatchWavelengths, a, b) :
        a \in 1..Len(MismatchWavelengths), b \in 1..Len(MismatchWavelengths)} \ {<<>>}

Position(c) == CHOOSE k \in 1..Len(MismatchWavelengths) : MismatchWavelengths[k] = c

\* a table of n rows with the identifier column and the wavelength columns
\* cols; the value in row r is base[r] plus the column's position
MismatchTable(n, cols, base) ==
    [index |-> [k \in 1..n |-> k - 1],
     columns |-> <<"Row/Col">> \o cols,
     dtypes |-> [c \in {"Row/Col"} \cup Range(cols) |->
                   IF c = "Row/Col" THEN "object" ELSE "number"],
     cell |-> [r \in 0..(n - 1) |-> [c \in {"Row/Col"} \cup Range(cols) |->
                 IF c = "Row/Col" THEN WellNames[r + 1]
                 ELSE F(base[r] + Position(c) - 1)]]]

MismatchTables(vals) ==
    {MismatchTable(n, cols, base) :
        n \in 1..NumRows, cols \in WavelengthRuns, base \in [0..(NumRows - 1) -> vals]}

InitMismatch ==
    /\ pc = "correction"
    /\ raw_df \in MismatchTables(RawValues)
    /\ plate_data \in MismatchTables(PlateValues)
    /\ blank_index \in 0..(Len(raw_df.index) - 1)
    /\ final_plate = Unset
    /\ final_plate_bc = Unset
    /\ sample_spectrum = Unset /\ styrene_spectrum = Unset
    /\ polystyrene_spectrum = Unset /\ opt_result = Unset
    /\ fit_result = Unset /\ r_squared = Unset
    /\ ProcIdle
    /\ ScriptIdle

SpecMismatch == InitMismatch /\ [][NextCorrection]_vars

----------------------------------------------------------------------------
(* Spectral deconvolution.  A spectrum is a sequence of floats. *)

RECURSIVE SumSeq(_)
SumSeq(s) == IF s = <<>> THEN F(0) ELSE FAdd(s[1], SumSeq(Tail(s)))

\* elementwise numpy arithmetic on arrays of equal length
VSub(x, y) == [k \in 1..Len(x) |-> FSub(x[k], y[k])]
VSquare(x) == [k \in 1..Len(x) |-> FMul(x[k], x[k])]
Dot(x, y) == SumSeq([k \in 1..Len(x) |-> FMul(x[k], y[k])])

\* c_styrene * styrene_spectrum + c_polystyrene * polystyrene_spectrum
combined_spectrum(coeffs, styrene, polystyrene) ==
    [k \in 1..Len(styrene) |->
        FAdd(FMul(coeffs[1], styrene[k]), FMul(coeffs[2], polystyrene[k]))]

\* np.sum((sample_spectrum - combined_spectrum) ** 2)
residuals(coeffs, sample, styrene, polystyrene) ==
    SumSeq(VSquare(VSub(sample, combined_spectrum(coeffs, styrene, polystyrene))))

initial_guess == <<<<1, 2>>, <<1, 2>>>>

Clip(x) == IF IsFinite(x) /\ x[1] < 0 THEN F(0) ELSE x

\* The points where the least-squares objective can take its minimum, on the
\* plane or on the quadrant c >= 0: the solution of the normal equations, the
\* minima along each axis, the point an exact line search along the gradient
\* reaches from the starting point, and these clipped to the quadrant.
Candidates(sample, styrene, polystyrene) ==
    LET A == Dot(styrene, styrene)
        B == Dot(styrene, polystyrene)
        C == Dot(polystyrene, polystyrene)
        u == Dot(sample, styrene)
        v == Dot(sample, polystyrene)
        det == FSub(FMul(A, C), FMul(B, B))
        half == <<1, 2>>
        normal == IF det = F(0) THEN {}
                  ELSE {<<FDiv(FSub(FMul(u, C), FMul(v, B)), det),
                          FDiv(FSub(FMul(v, A), FMul(u, B)), det)>>}
        alongS == IF A = F(0) THEN {} ELSE {<<FDiv(u, A), F(0)>>}
        alongP == IF C = F(0) THEN {} ELSE {<<F(0), FDiv(v, C)>>}
        g1 == FSub(FMul(half, FAdd(A, B)), u)
        g2 == FSub(FMul(half, FAdd(B, C)), v)
        gg == FAdd(FMul(g1, g1), FMul(g2, g2))
        gHg == FAdd(FMul(g1, FAdd(FMul(A, g1), FMul(B, g2))),
                    FMul(g2, FAdd(FMul(B, g1), FMul(C, g2))))
        descent == IF gHg = F(0) THEN {}
                   ELSE {<<FSub(half, FMul(FDiv(gg, gHg), g1)),
                           FSub(half, FMul(FDiv(gg, gHg), g2))>>}
        free == normal \cup alongS \cup alongP \cup descent
                \cup {<<F(0), F(0)>>, initial_guess}
    IN  free \cup {<<Clip(c[1]), Clip(c[2])>> : c \in free}

ArgMin(points, sample, styrene, polystyrene) ==
    LET res == [c \in points |-> residuals(c, sample, styrene, polystyrene)]
    IN  {c \in points : \A d \in points : FLeq(res[c], res[d])}

\* squared distance from the starting point
FromStart(c) ==
    FAdd(FMul(FSub(c[1], initial_guess[1]), FSub(c[1], initial_guess[1])),
         FMul(FSub(c[2], initial_guess[2]), FSub(c[2], initial_guess[2])))

\* the minimising point the iteration reaches from the starting point: where
\* the minimum is not unique (linearly dependent references), the minimising
\* point nearest to the starting point
Nearest(points) ==
    CHOOSE c \in points : \A d \in points : FLeq(FromStart(c), FromStart(d))

HasNaN(s) == \E k \in 1..Len(s) : IsNaN(s[k])

\* scipy.optimize.minimize(residuals, [0.5, 0.5], bounds=[(0, None), (0, None)])
\* (L-BFGS-B): the OptimizeResult of the call.  Every iterate lies within the
\* bounds.  An objective that is NaN ends the line search abnormally: success
\* is False and x is the starting point.  Otherwise the run converges to the
\* minimum over the quadrant.
minimize(sample, styrene, polystyrene) ==
    IF HasNaN(sample) \/ HasNaN(styrene) \/ HasNaN(polystyrene)
    THEN [x |-> initial_guess, success |-> FALSE]
    ELSE LET feasible == {c \in Candidates(sample, styrene, polystyrene) :
                            c[1][1] >= 0 /\ c[2][1] >= 0}
         IN  [x |-> Nearest(ArgMin(feasible, sample, styrene, polystyrene)),
              success |-> TRUE]

\* as least_squares_deconvolution, the two coefficients in the other order
least_squares_deconvolution_swapped(result) == <<result.x[2], result.x[1]>>

\* CF least_squares_deconvolution and BC fit_spectra: result.x, whatever
\* result.success says
least_squares_deconvolution(result) == result.x

\* Python's None, and an exception that leaves the call
PyNone == <<>>
Raise == <<"raise">>

\* scipy.optimize.curve_fit(model_func, wavelengths, sample, p0=[0.5, 0.5]):
\* no bounds are given, so the fit is an unconstrained least-squares fit.
\* check_finite rejects a NaN in the sample with a ValueError, and fewer
\* points than parameters are rejected with a TypeError.
curve_fit(sample, styrene, polystyrene) ==
    IF HasNaN(sample) \/ Len(sample) < 2 THEN Raise
    ELSE Nearest(ArgMin(Candidates(sample, styrene, polystyrene),
                        sample, styrene, polystyrene))

\* CF scipy_curve_fit: the parameters, or None when curve_fit raised
scipy_curve_fit(sample, styrene, polystyrene) ==
    IF curve_fit(sample, styrene, polystyrene) = Raise THEN PyNone
    ELSE curve_fit(sample, styrene, polystyrene)

\* np.mean
Mean(s) == FDiv(SumSeq(s), F(Len(s)))

\* 1 - (SS_res / SS_tot); the division is made whatever SS_tot is
calculate_r_squared(sample, fitted) ==
    LET SS_res == SumSeq(VSquare(VSub(sample, fitted)))
        SS_tot == SumSeq(VSquare([k \in 1..Len(sample) |-> FSub(sample[k], Mean(sample))]))
    IN  FSub(F(1), FDiv(SS_res, SS_tot))

SS_tot_of(sample) ==
    SumSeq(VSquare([k \in 1..Len(sample) |-> FSub(sample[k], Mean(sample))]))

----------------------------------------------------------------------------
(* A single fit: one observed spectrum against the two references *)

NumPoints == 2
SampleValues == {F(0), F(1), F(2), F(3), NaN}
ReferenceValues == {F(1), F(2)}

InitFit ==
    /\ pc = "fit"
    /\ sample_spectrum \in [1..NumPoints -> SampleValues]
    /\ styrene_spectrum \in [1..NumPoints -> ReferenceValues]
    /\ polystyrene_spectrum \in [1..NumPoints -> ReferenceValues]
    /\ opt_result = Unset /\ fit_result = Unset /\ r_squared = Unset
    /\ raw_df = Unset /\ plate_data = Unset /\ blank_index = 0
    /\ final_plate = Unset /\ final_plate_bc = Unset
    /\ ProcIdle
    /\ ScriptIdle

\* CF fit_spectra(..., deconvolution_method=least_squares_deconvolution)
FitLeastSquares ==
    /\ pc = "fit"
    /\ opt_result' = Returned(minimize(sample_spectrum, styrene_spectrum,
                                       polystyrene_spectrum))
    /\ fit_result' = Returned(least_squares_deconvolution(opt_result'[1]))
    /\ pc' = "fitted_cf"
    /\ UNCHANGED <<scriptVars, sample_spectrum, styrene_spectrum, polystyrene_spectrum,
                   r_squared, corrVars, procVars>>

\* CF fit_spectra(..., deconvolution_method=scipy_curve_fit)
FitCurveFit ==
    /\ pc = "fit"
    /\ fit_result' = Returned(scipy_curve_fit(sample_spectrum, styrene_spectrum,
                                              polystyrene_spectrum))
    /\ pc' = "fitted_curve_fit"
    /\ UNCHANGED <<scriptVars, sample_spectrum, styrene_spectrum, polystyrene_spectrum,
                   opt_result, r_squared, corrVars, procVars>>

\* BC fit_spectra
FitBC ==
    /\ pc = "fit"
    /\ opt_result' = Returned(minimize(sample_spectrum, styrene_spectrum,
                                       polystyrene_spectrum))
    /\ fit_result' = Returned(least_squares_deconvolution(opt_result'[1]))
    /\ pc' = "fitted_bc"
    /\ UNCHANGED <<scriptVars, sample_spectrum, styrene_spectrum, polystyrene_spectrum,
                   r_squared, corrVars, procVars>>

\* calculate_r_squared(sample_spectrum, fitted_spectrum) on the fitted
\* spectrum of the coefficients a fit returned
RSquared ==
    /\ pc \in {"fitted_cf", "fitted_curve_fit", "fitted_bc"}
    /\ fit_result # Returned(PyNone)
    /\ r_squared' = Returned(calculate_r_squared(sample_spectrum,
            combined_spectrum(fit_result[1], styrene_spectrum, polystyrene_spectrum)))
    /\ pc' = "scored"
    /\ UNCHANGED <<scriptVars, sample_spectrum, styrene_spectrum, polystyrene_spectrum,
                   opt_result, fit_result, corrVars, procVars>>

\* one iteration of the loop of BC main_4: the inline minimize call and the
\* inline R-squared of its fitted spectrum
Main4Iteration ==
    /\ pc = "fit"
    /\ opt_result' = Returned(minimize(sample_spectrum, styrene_spectrum,
                                       polystyrene_spectrum))
    /\ fit_result' = Returned(opt_result'[1].x)
    /\ r_squared' = Returned(calculate_r_squared(sample_spectrum,
          combined_spectrum(opt_result'[1].x, styrene_spectrum, polystyrene_spectrum)))
    /\ pc' = "main_4"
    /\ UNCHANGED <<scriptVars, sample_spectrum, styrene_spectrum, polystyrene_spectrum, corrVars, procVars>>

NextFit == FitLeastSquares \/ FitCurveFit \/ FitBC \/ RSquared \/ Main4Iteration

SpecFit == InitFit /\ [][NextFit]_vars

----------------------------------------------------------------------------
(* Batch processing: process_samples *)

\* Python's s[start:stop] for 0 <= start, stop on a sequence of length n: the
\* 0-based interval <<lo, hi>> of the indexes kept.  s[start:] is s[start:n].
SliceBounds(n, start, stop) ==
    LET lo == IF start > n THEN n ELSE start
        hi == IF stop > n THEN n ELSE stop
    IN  <<lo, IF hi < lo THEN lo ELSE hi>>
Slice(s, start, stop) ==
    SubSeq(s, SliceBounds(Len(s), start, stop)[1] + 1,
              SliceBounds(Len(s), start, stop)[2])

\* df.iloc[k, :].values
iloc_values(df, k) == [n \in 1..Len(df.columns) |-> df.cell[df.index[k + 1]][df.columns[n]]]

\* prepare_spectra: row 0 of the numeric columns of each reference table,
\* sliced to [range_start:range_end]
prepare_spectra(styrene_table, polystyrene_table, start, stop) ==
    <<Slice(iloc_values(separate_columns(styrene_table).numeric_cols, 0), start, stop),
      Slice(iloc_values(separate_columns(polystyrene_table).numeric_cols, 0), start, stop)>>

\* volume * 0.025 / 300 and volume * 0.25 / 300
styrene_concentration(volume) == FDiv(FMul(volume, <<25, 1000>>), F(300))
polystyrene_concentration(volume) == FDiv(FMul(volume, <<25, 100>>), F(300))

\* the spectrum process_samples fits for row k
unknown_spectrum(df, k, start, stop) ==
    Slice(iloc_values(select_dtypes(df, TRUE), k), start, stop)

\* as fit_spectra, with no handler in either file
fit_spectra_unhandled(file, method, sample, styrene, polystyrene) ==
    IF Len(sample) # Len(styrene) \/ Len(sample) # Len(polystyrene)
    THEN Raise
    ELSE IF file = "CF" /\ method = "scipy_curve_fit"
    THEN scipy_curve_fit(sample, styrene, polystyrene)
    ELSE least_squares_deconvolution(minimize(sample, styrene, polystyrene))

\* What fit_spectra hands back: a coefficient pair, None, or Raise when the
\* exception leaves fit_spectra.  Arrays of different lengths make the
\* arithmetic in the objective raise a ValueError; CF fit_spectra catches
\* every exception of the method and returns None, BC fit_spectra has no
\* handler.
fit_spectra(file, method, sample, styrene, polystyrene) ==
    IF Len(sample) # Len(styrene) \/ Len(sample) # Len(polystyrene)
    THEN (IF file = "CF" THEN PyNone ELSE Raise)
    ELSE IF file = "CF" /\ method = "scipy_curve_fit"
    THEN scipy_curve_fit(sample, styrene, polystyrene)
    ELSE least_squares_deconvolution(minimize(sample, styrene, polystyrene))

\* What a call of fit_spectra logs.  CF scipy_curve_fit catches what
\* curve_fit raises, logs it and returns None, so nothing reaches the handler
\* of fit_spectra; the ValueError of least_squares_deconvolution on arrays of
\* different lengths reaches it and is logged there.  BC logs nothing.
fit_messages(file, method, sample, styrene, polystyrene) ==
    IF file # "CF" THEN <<>>
    ELSE IF method = "scipy_curve_fit"
    THEN (IF Len(sample) # Len(styrene) \/ Len(sample) # Len(polystyrene)
             \/ scipy_curve_fit(sample, styrene, polystyrene) = PyNone
          THEN <<"Error in curve fitting">> ELSE <<>>)
    ELSE (IF Len(sample) # Len(styrene) \/ Len(sample) # Len(polystyrene)
          THEN <<"Error during spectrum fitting">> ELSE <<>>)

NumRowsOf(df) == Len(df.index)

\* df.iloc[r, c]; "IndexError" when the position is out of bounds
iloc(df, r, c) ==
    IF r >= Len(df.index) \/ c >= Len(df.columns) THEN "IndexError"
    ELSE df.cell[df.index[r + 1]][df.columns[c + 1]]

\* as append_components, the concentrations read from row 0 of the volumes
append_components_first_row(lists, fit, vols, k) ==
    <<Append(lists[1], fit[1]),
      Append(lists[2], styrene_concentration(iloc(vols, 0, 0))),
      Append(lists[3], fit[2]),
      Append(lists[4], polystyrene_concentration(iloc(vols, 0, 1)))>>

\* the four appends of iteration k of process_samples
append_components(lists, fit, vols, k) ==
    <<Append(lists[1], fit[1]),
      Append(lists[2], styrene_concentration(iloc(vols, k, 0))),
      Append(lists[3], fit[2]),
      Append(lists[4], polystyrene_concentration(iloc(vols, k, 1)))>>

----------------------------------------------------------------------------
(* Inputs of the process_samples runs *)

MaxSamples == 2
ProcessColumns == <<"Row/Col", "220", "221", "222">>
SampleRows == {<<F(0), F(0), F(0)>>, <<F(1), F(2), F(1)>>, <<NaN, F(1), F(1)>>}
VolumeRows == {<<F(30), F(270)>>, <<F(300), F(0)>>}
FitRanges == {<<0, 2>>, <<1, 3>>, <<0, 3>>}

\* a table whose first column is the identifier and whose other columns hold
\* the rows given
FrameOf(cols, rows) ==
    [index |-> [k \in 1..Len(rows) |-> k - 1],
     columns |-> cols,
     dtypes |-> [c \in Range(cols) |-> IF c = "Row/Col" THEN "object" ELSE "number"],
     cell |-> [r \in 0..(Len(rows) - 1) |-> [c \in Range(cols) |->
                 IF c = "Row/Col" THEN WellNames[r + 1]
                 ELSE rows[r + 1][(CHOOSE n \in 1..Len(cols) : cols[n] = c) - 1]]]]

StyreneTable == FrameOf(ProcessColumns, <<<<F(1), F(1), F(0)>>>>)
PolystyreneTable == FrameOf(ProcessColumns, <<<<F(0), F(1), F(1)>>>>)

VolumeFrame(rows) ==
    [index |-> [k \in 1..Len(rows) |-> k - 1],
     columns |-> <<"Styrene", "Polystyrene">>,
     dtypes |-> [c \in {"Styrene", "Polystyrene"} |-> "number"],
     cell |-> [r \in 0..(Len(rows) - 1) |->
                 [c \in {"Styrene", "Polystyrene"} |->
                    IF c = "Styrene" THEN rows[r + 1][1] ELSE rows[r + 1][2]]]]

\* BC main_4: load_data_new names 781 wavelength columns, 220 to 1000
Main4Wavelengths == 781
Main4RangeStart == 40
Main4RangeEnd == 101

InitProcess ==
    /\ pc \in {"prepare_spectra", "main_4"}
    /\ IF pc = "main_4"
       THEN /\ impl = "BC" /\ deconvolution_method = "least_squares_deconvolution"
            /\ data_df = Unset /\ volumes_df = Unset
            /\ range_start = Main4RangeStart /\ range_end = Main4RangeEnd
       ELSE /\ \E method \in {<<"CF", "least_squares_deconvolution">>,
                              <<"CF", "scipy_curve_fit">>,
                              <<"BC", "least_squares_deconvolution">>} :
                  impl = method[1] /\ deconvolution_method = method[2]
            /\ \E n \in 1..MaxSamples :
                  data_df \in {FrameOf(ProcessColumns, rows) :
                                  rows \in [1..n -> SampleRows]}
            /\ \E m \in 1..(MaxSamples + 1) :
                  volumes_df \in {VolumeFrame(rows) : rows \in [1..m -> VolumeRows]}
            /\ \E range \in FitRanges : range_start = range[1] /\ range_end = range[2]
    /\ i = 0
    /\ styrene_components_pred = <<>> /\ styrene_components_actual = <<>>
    /\ ps_components_pred = <<>> /\ ps_components_actual = <<>>
    /\ ref_slice = Unset /\ fit_site = Unset
    /\ sample_spectrum = Unset /\ styrene_spectrum = Unset
    /\ polystyrene_spectrum = Unset /\ opt_result = Unset
    /\ fit_result = Unset /\ r_squared = Unset
    /\ raw_df = Unset /\ plate_data = Unset /\ blank_index = 0
    /\ final_plate = Unset /\ final_plate_bc = Unset
    /\ ScriptIdle

\* the caller's prepare_spectra(..., range_start, range_end) before it calls
\* process_samples with the same range
PrepareSpectra ==
    /\ pc = "prepare_spectra"
    /\ styrene_spectrum' =
          prepare_spectra(StyreneTable, PolystyreneTable, range_start, range_end)[1]
    /\ polystyrene_spectrum' =
          prepare_spectra(StyreneTable, PolystyreneTable, range_start, range_end)[2]
    /\ ref_slice' = Returned(SliceBounds(
          Len(separate_columns(StyreneTable).numeric_cols.columns),
          range_start, range_end))
    /\ pc' = "process_samples"
    /\ UNCHANGED <<scriptVars, sample_spectrum, opt_result, fit_result, r_squared, corrVars,
                   impl, deconvolution_method, data_df, volumes_df, range_start,
                   range_end, i, listVars, fit_site>>

\* one iteration of the loop of process_samples (CF and BC)
ProcessSample ==
    /\ pc = "process_samples"
    /\ i < NumRowsOf(data_df)
    /\ sample_spectrum' = unknown_spectrum(data_df, i, range_start, range_end)
    /\ fit_site' = Returned(
          [site |-> "process_samples",
           observed |-> SliceBounds(Len(select_dtypes(data_df, TRUE).columns),
                                    range_start, range_end),
           styrene |-> ref_slice[1],
           polystyrene |-> ref_slice[1],
           range |-> <<range_start, range_end>>])
    /\ fit_result' = Returned(fit_spectra(impl, deconvolution_method, sample_spectrum',
                                          styrene_spectrum, polystyrene_spectrum))
    /\ IF fit_result'[1] = Raise \/ fit_result'[1] = PyNone
          \/ iloc(volumes_df, i, 0) = "IndexError"
          \/ iloc(volumes_df, i, 1) = "IndexError"
       THEN /\ pc' = "raised"
            /\ UNCHANGED <<i, listVars>>
       ELSE /\ styrene_components_pred' =
                  append_components(listVars, fit_result'[1], volumes_df, i)[1]
            /\ styrene_components_actual' =
                  append_components(listVars, fit_result'[1], volumes_df, i)[2]
            /\ ps_components_pred' =
                  append_components(listVars, fit_result'[1], volumes_df, i)[3]
            /\ ps_components_actual' =
                  append_components(listVars, fit_result'[1], volumes_df, i)[4]
            /\ i' = i + 1
            /\ pc' = "process_samples"
    /\ log' = log \o fit_messages(impl, deconvolution_method, sample_spectrum',
                                   styrene_spectrum, polystyrene_spectrum)
    /\ UNCHANGED <<regVars, runVars, path, loader, wavelength_range, loaded, helperVars,
                   styrene_spectrum, polystyrene_spectrum, opt_result, r_squared,
                   corrVars, impl, deconvolution_method, data_df, volumes_df,
                   range_start, range_end, ref_slice>>

\* the loop is over: process_samples returns the four lists
ProcessReturn ==
    /\ pc = "process_samples"
    /\ i = NumRowsOf(data_df)
    /\ pc' = "returned"
    /\ UNCHANGED <<scriptVars, fitVars, corrVars, procVars>>

\* BC main_4: the slices its fitting loop takes.  The references are cut once
\* with [range_start:], each row with .iloc[i, 1:].values[range_start:];
\* range_end is assigned and never used.
Main4Slice ==
    /\ pc = "main_4"
    /\ fit_site' = Returned(
          [site |-> "main_4",
           observed |-> SliceBounds(Main4Wavelengths, range_start, Main4Wavelengths),
           styrene |-> SliceBounds(Main4Wavelengths, range_start, Main4Wavelengths),
           polystyrene |-> SliceBounds(Main4Wavelengths, range_start, Main4Wavelengths),
           range |-> <<range_start, range_end>>])
    /\ pc' = "main_4_fit"
    /\ UNCHANGED <<scriptVars, fitVars, corrVars, impl, deconvolution_method, data_df,
                   volumes_df, range_start, range_end, i, listVars, ref_slice>>

NextProcess == PrepareSpectra \/ ProcessSample \/ ProcessReturn \/ Main4Slice

SpecProcess == InitProcess /\ [][NextProcess]_vars

----------------------------------------------------------------------------
(* process_samples on a table made of the two reference spectra *)

\* k rows equal to the styrene reference, then n - k rows equal to the
\* polystyrene reference
ReferenceRows(n, k) ==
    [j \in 1..n |-> IF j <= k THEN <<F(1), F(1), F(0)>> ELSE <<F(0), F(1), F(1)>>]

InitBatch ==
    /\ pc = "prepare_spectra"
    /\ \E method \in {<<"CF", "least_squares_deconvolution">>,
                      <<"CF", "scipy_curve_fit">>,
                      <<"BC", "least_squares_deconvolution">>} :
          impl = method[1] /\ deconvolution_method = method[2]
    /\ \E n \in 1..(MaxSamples + 1) :
          /\ \E k \in 0..n : data_df = FrameOf(ProcessColumns, ReferenceRows(n, k))
          /\ volumes_df \in {VolumeFrame(rows) : rows \in [1..n -> VolumeRows]}
    /\ \E range \in FitRanges : range_start = range[1] /\ range_end = range[2]
    /\ i = 0
    /\ styrene_components_pred = <<>> /\ styrene_components_actual = <<>>
    /\ ps_components_pred = <<>> /\ ps_components_actual = <<>>
    /\ ref_slice = Unset /\ fit_site = Unset
    /\ CorrIdle /\ FitIdle /\ ScriptIdle

NextBatch == PrepareSpectra \/ ProcessSample \/ ProcessReturn

SpecBatch == InitBatch /\ [][NextBatch]_vars

----------------------------------------------------------------------------
(* process_samples (CF) called with reference spectra of any range: the    *)
(* caller prepares them, and nothing ties their range to the one handed to *)
(* process_samples.                                                          *)

InitFailure ==
    /\ pc = "process_samples"
    /\ impl = "CF"
    /\ deconvolution_method \in {"least_squares_deconvolution", "scipy_curve_fit"}
    /\ \E n \in 1..MaxSamples :
          /\ data_df \in {FrameOf(ProcessColumns, rows) : rows \in [1..n -> SampleRows]}
          /\ volumes_df = VolumeFrame([k \in 1..n |-> <<F(30), F(270)>>])
    /\ \E range \in FitRanges : range_start = range[1] /\ range_end = range[2]
    /\ \E range \in FitRanges :
          /\ styrene_spectrum =
                prepare_spectra(StyreneTable, PolystyreneTable, range[1], range[2])[1]
          /\ polystyrene_spectrum =
                prepare_spectra(StyreneTable, PolystyreneTable, range[1], range[2])[2]
          /\ ref_slice = Returned(SliceBounds(
                Len(separate_columns(StyreneTable).numeric_cols.columns),
                range[1], range[2]))
    /\ i = 0
    /\ styrene_components_pred = <<>> /\ styrene_components_actual = <<>>
    /\ ps_components_pred = <<>> /\ ps_components_actual = <<>>
    /\ fit_site = Unset
    /\ sample_spectrum = Unset /\ opt_result = Unset
    /\ fit_result = Unset /\ r_squared = Unset
    /\ CorrIdle /\ ScriptIdle

NextFailure == ProcessSample \/ ProcessReturn

SpecFailure == InitFailure /\ [][NextFailure]_vars

----------------------------------------------------------------------------
(* Calibration: the positional train/test split and linear_regression *)

\* the number of trailing pairs held out: the 20 of [:-20] and [-20:]
TestSize == 20

\* Python's s[:-k] and s[-k:] for k > 0: a negative index counts from the
\* end and is clamped at the start of the sequence
NegIndex(s, k) == IF Len(s) > k THEN Len(s) - k ELSE 0

\* as SliceToNeg, nothing held back
as_whole_list(s, k) == s

SliceToNeg(s, k) == Slice(s, 0, NegIndex(s, k))
SliceFromNeg(s, k) == Slice(s, NegIndex(s, k), Len(s))

\* as LinearRegression_fit, without an intercept (the line through the origin)
LinearRegression_fit_no_intercept(x, y) ==
    LET sxx == Dot(x, x)
    IN  [coef |-> IF sxx = F(0) THEN F(0) ELSE FDiv(Dot(x, y), sxx),
         intercept |-> F(0)]

\* sklearn LinearRegression().fit(x, y) on one feature: ordinary least
\* squares on the centred data; when every x is the same the minimum-norm
\* solution has slope 0
LinearRegression_fit(x, y) ==
    LET cx == [k \in 1..Len(x) |-> FSub(x[k], Mean(x))]
        cy == [k \in 1..Len(y) |-> FSub(y[k], Mean(y))]
        sxx == Dot(cx, cx)
        coef == IF sxx = F(0) THEN F(0) ELSE FDiv(Dot(cx, cy), sxx)
    IN  [coef |-> coef, intercept |-> FSub(Mean(y), FMul(coef, Mean(x)))]

\* regr.predict(x)
predict(regr, x) == [k \in 1..Len(x) |-> FAdd(FMul(regr.coef, x[k]), regr.intercept)]

\* sklearn.metrics.mean_squared_error(y_true, y_pred)
mean_squared_error(y_true, predicted) == Mean(VSquare(VSub(y_true, predicted)))

\* sklearn.metrics.r2_score(y_true, y_pred): 1 - SS_res / SS_tot; with
\* SS_tot = 0 the score is 1 for a perfect prediction and 0 otherwise; nan
\* with fewer than two samples
r2_score(y_true, predicted) ==
    LET numerator == SumSeq(VSquare(VSub(y_true, predicted)))
        denominator == SS_tot_of(y_true)
    IN  IF Len(y_true) < 2 THEN NaN
        ELSE IF denominator # F(0) THEN FSub(F(1), FDiv(numerator, denominator))
        ELSE IF numerator = F(0) THEN F(1) ELSE F(0)

\* as linear_regression, fitted on the test data when there is no training
\* data
linear_regression_on_test_data(xtr, ytr, xte, yte) ==
    IF Len(xte) = 0 \/ HasNaN(xte) \/ Len(xte) # Len(yte) \/ HasNaN(yte)
       \/ Len(xtr) # Len(ytr) \/ HasNaN(xtr) \/ HasNaN(ytr)
    THEN Raise
    ELSE LET regr == IF Len(xtr) = 0 THEN LinearRegression_fit(xte, yte)
                     ELSE LinearRegression_fit(xtr, ytr)
         IN  <<regr, predict(regr, xte),
               [mse |-> mean_squared_error(yte, predict(regr, xte)),
                r2 |-> r2_score(yte, predict(regr, xte))]>>

\* linear_regression(x_train, y_train, x_test, y_test): <<regr, y_pred>> and,
\* third, the two metrics it logs; Raise when fit or predict rejects its input
\* (no sample, a nan, lengths that differ)
linear_regression(xtr, ytr, xte, yte) ==
    IF Len(xtr) = 0 \/ Len(xtr) # Len(ytr) \/ HasNaN(xtr) \/ HasNaN(ytr)
       \/ Len(xte) = 0 \/ HasNaN(xte) \/ Len(xte) # Len(yte) \/ HasNaN(yte)
    THEN Raise
    ELSE LET regr == LinearRegression_fit(xtr, ytr)
         IN  <<regr, predict(regr, xte),
               [mse |-> mean_squared_error(yte, predict(regr, xte)),
                r2 |-> r2_score(yte, predict(regr, xte))]>>

\* the lists process_samples returned to curve_fitting_lin_reg
MaxTrain == 2
ListSizes == {0, 1} \cup ((TestSize - 1)..(TestSize + MaxTrain))
Slopes == {1, 2}
Intercepts == {0, 1}
Noises == {0, 1}
Steps == {0, 1}

CoefficientList(n, step, shift) == [k \in 1..n |-> F((k * step + shift) % 3)]
ConcentrationList(x, m, b, noise) ==
    [k \in 1..Len(x) |-> FAdd(FAdd(FMul(F(m), x[k]), F(b)), F(noise * (k % 2)))]

InitRegression ==
    /\ pc = "split_styrene"
    /\ impl \in {"CF", "BC"}
    /\ \E n \in ListSizes, step \in Steps, m \in Slopes, b \in Intercepts,
          noise \in Noises, m_ps \in Slopes :
          /\ styrene_components_pred = CoefficientList(n, step, 0)
          /\ styrene_components_actual =
                ConcentrationList(CoefficientList(n, step, 0), m, b, noise)
          /\ ps_components_pred = CoefficientList(n, step, 1)
          /\ ps_components_actual =
                ConcentrationList(CoefficientList(n, step, 1), m_ps + 1, b, noise)
    /\ deconvolution_method = "least_squares_deconvolution"
    /\ data_df = Unset /\ volumes_df = Unset
    /\ range_start = 0 /\ range_end = 0 /\ i = 0
    /\ ref_slice = Unset /\ fit_site = Unset
    /\ sample_spectrum = Unset /\ styrene_spectrum = Unset
    /\ polystyrene_spectrum = Unset /\ opt_result = Unset
    /\ fit_result = Unset /\ r_squared = Unset
    /\ raw_df = Unset /\ plate_data = Unset /\ blank_index = 0
    /\ final_plate = Unset /\ final_plate_bc = Unset
    /\ ScriptIdle

\* x_train, x_test = styrene_pred[:-20], styrene_pred[-20:], and the same
\* for y on styrene_actual
SplitStyrene ==
    /\ pc = "split_styrene"
    /\ x_train' = SliceToNeg(styrene_components_pred, TestSize)
    /\ x_test' = SliceFromNeg(styrene_components_pred, TestSize)
    /\ y_train' = SliceToNeg(styrene_components_actual, TestSize)
    /\ y_test' = SliceFromNeg(styrene_components_actual, TestSize)
    /\ pc' = "regress_styrene"
    /\ UNCHANGED <<regr_styrene, regr_polystyrene, y_pred, metrics,
                   loadVars, runVars, corrVars, fitVars, procVars>>

\* regr_styrene, y_pred = linear_regression(x_train, y_train, x_test, y_test)
RegressStyrene ==
    /\ pc = "regress_styrene"
    /\ LET out == linear_regression(x_train, y_train, x_test, y_test)
       IN  IF out = Raise
           THEN /\ pc' = "raised"
                /\ UNCHANGED <<regr_styrene, y_pred, metrics>>
           ELSE /\ regr_styrene' = Returned(out[1])
                /\ y_pred' = Returned(out[2])
                /\ metrics' = Returned(out[3])
                /\ pc' = "split_polystyrene"
    /\ UNCHANGED <<x_train, y_train, x_test, y_test, regr_polystyrene,
                   loadVars, runVars, corrVars, fitVars, procVars>>

\* x_train, x_test = ps_pred[:-20], ps_pred[-20:], and the same for y
SplitPolystyrene ==
    /\ pc = "split_polystyrene"
    /\ x_train' = SliceToNeg(ps_components_pred, TestSize)
    /\ x_test' = SliceFromNeg(ps_components_pred, TestSize)
    /\ y_train' = SliceToNeg(ps_components_actual, TestSize)
    /\ y_test' = SliceFromNeg(ps_components_actual, TestSize)
    /\ pc' = "regress_polystyrene"
    /\ UNCHANGED <<regr_styrene, regr_polystyrene, y_pred, metrics,
                   loadVars, runVars, corrVars, fitVars, procVars>>

\* regr_polystyrene, y_pred = linear_regression(x_train, y_train, x_test, y_test)
RegressPolystyrene ==
    /\ pc = "regress_polystyrene"
    /\ LET out == linear_regression(x_train, y_train, x_test, y_test)
       IN  IF out = Raise
           THEN /\ pc' = "raised"
                /\ UNCHANGED <<regr_polystyrene, y_pred, metrics>>
           ELSE /\ regr_polystyrene' = Returned(out[1])
                /\ y_pred' = Returned(out[2])
                /\ metrics' = Returned(out[3])
                /\ pc' = "regressed"
    /\ UNCHANGED <<x_train, y_train, x_test, y_test, regr_styrene,
                   loadVars, runVars, corrVars, fitVars, procVars>>

NextRegression ==
    SplitStyrene \/ RegressStyrene \/ SplitPolystyrene \/ RegressPolystyrene

SpecRegression == InitRegression /\ [][NextRegression]_vars

----------------------------------------------------------------------------
(* Calibration and the later predictions of curve_fitting_lin_reg.  The     *)
(* four list variables hold the lists of the calibration dataset (the       *)
(* code's styrene_pred, styrene_actual, ps_pred, ps_actual); env holds the   *)
(* locals assigned after the two fits.                                       *)

\* the two predict calls with the models exchanged
predict_concentrations_exchanged(regr_s, regr_ps, s_components, ps_components) ==
    <<predict(regr_ps, s_components), predict(regr_s, ps_components)>>

\* styrene_concs_pred = regr_styrene.predict(styrene_components_pred) and
\* ps_concs_pred = regr_polystyrene.predict(ps_components_pred)
predict_concentrations(regr_s, regr_ps, s_components, ps_components) ==
    <<predict(regr_s, s_components), predict(regr_ps, ps_components)>>

MaxNew == 2

\* the coefficient lists process_samples returns for a later dataset
NewLists ==
    {<<CoefficientList(n, 1, shift), CoefficientList(n, 1, shift + 1)>> :
        n \in 1..MaxNew, shift \in 0..1}

InitCalibrate ==
    /\ pc = "split_styrene"
    /\ impl \in {"CF", "BC"}
    /\ \E n \in ListSizes, m \in Slopes, b \in Intercepts, noise \in Noises,
          m_ps \in Slopes :
          /\ styrene_components_pred = CoefficientList(n, 1, 0)
          /\ styrene_components_actual =
                ConcentrationList(CoefficientList(n, 1, 0), m, b, noise)
          /\ ps_components_pred = CoefficientList(n, 1, 1)
          /\ ps_components_actual =
                ConcentrationList(CoefficientList(n, 1, 1), m_ps + 1, b, noise)
    /\ env = [dataset |-> "", styrene_components_pred |-> <<>>,
              ps_components_pred |-> <<>>, styrene_concs_pred |-> Unset,
              ps_concs_pred |-> Unset]
    /\ saved = Unset /\ files = Unset /\ steps = <<>>
    /\ volumes = Unset /\ volumes_abs = Unset
    /\ deconvolution_method = "least_squares_deconvolution"
    /\ data_df = Unset /\ volumes_df = Unset
    /\ range_start = 0 /\ range_end = 0 /\ i = 0
    /\ ref_slice = Unset /\ fit_site = Unset
    /\ CorrIdle /\ FitIdle /\ RegIdle /\ LoadIdle

\* process_samples on a later dataset: the new dataset in both files, then
\* the crude dataset in CF
ProcessLater ==
    /\ \/ pc = "regressed" /\ env.dataset = ""
       \/ pc = "predicted" /\ env.dataset = "new" /\ impl = "CF"
    /\ \E lists \in NewLists :
          env' = [env EXCEPT !.dataset = IF env.dataset = "" THEN "new" ELSE "crude",
                             !.styrene_components_pred = lists[1],
                             !.ps_components_pred = lists[2]]
    /\ pc' = "predict"
    /\ UNCHANGED <<saved, files, steps, volumes, volumes_abs, regVars, loadVars,
                   corrVars, fitVars, procVars>>

\* the two predict calls that follow
PredictLater ==
    /\ pc = "predict"
    /\ env' = [env EXCEPT
          !.styrene_concs_pred = Returned(predict_concentrations(
              regr_styrene[1], regr_polystyrene[1],
              env.styrene_components_pred, env.ps_components_pred)[1]),
          !.ps_concs_pred = Returned(predict_concentrations(
              regr_styrene[1], regr_polystyrene[1],
              env.styrene_components_pred, env.ps_components_pred)[2])]
    /\ pc' = "predicted"
    /\ UNCHANGED <<saved, files, steps, volumes, volumes_abs, regVars, loadVars,
                   corrVars, fitVars, procVars>>

NextCalibrate ==
    \/ SplitStyrene \/ RegressStyrene \/ SplitPolystyrene \/ RegressPolystyrene
    \/ ProcessLater \/ PredictLater

SpecCalibrate == InitCalibrate /\ [][NextCalibrate]_vars

----------------------------------------------------------------------------
(* Loaders: load_data and load_data_new of both files *)

\* A file is [state, table]: state is "ok", "missing", "empty" (no data) or
\* "unparsable"; table is the DataFrame pd.read_csv makes of an "ok" file,
\* its columns labelled by position when read with header=None.
EmptyFrame == [index |-> <<>>, columns |-> <<>>, dtypes |-> <<>>, cell |-> <<>>]

\* pd.read_csv: [exception, frame]; exception is "" when the file is read
read_csv(file) ==
    [exception |-> CASE file.state = "missing" -> "FileNotFoundError"
                     [] file.state = "empty" -> "EmptyDataError"
                     [] file.state = "unparsable" -> "ParserError"
                     [] OTHER -> "",
     frame |-> IF file.state = "ok" THEN file.table ELSE EmptyFrame]

\* the column label of wavelength w
WavelengthLabels == <<"220", "221", "222", "223", "224">>
Label(w) == WavelengthLabels[w - 219]

\* ['Row/Col'] + list(range(start_wavelength, end_wavelength + 1))
NewColumns(start, end) ==
    <<"Row/Col">> \o [k \in 1..(end - start + 1) |-> Label(start + k - 1)]

\* df.columns = labels, for Len(labels) = Len(df.columns): the columns are
\* relabelled by position
set_columns(df, labels) ==
    LET old(c) == df.columns[CHOOSE k \in 1..Len(labels) : labels[k] = c]
    IN  [index |-> df.index,
         columns |-> labels,
         dtypes |-> [c \in Range(labels) |-> df.dtypes[old(c)]],
         cell |-> [r \in Range(df.index) |-> [c \in Range(labels) |-> df.cell[r][old(c)]]]]

\* the message a CF loader logs for an exception
cf_message(exception) ==
    CASE exception = "FileNotFoundError" -> "Error: File not found"
      [] exception = "EmptyDataError" -> "Error: Empty file"
      [] OTHER -> "Error loading file"

\* What a loader call comes to: [kind, frame, exception, log].  kind is
\* "DataFrame" (frame is returned), "None" (None is returned) or "raise"
\* (exception leaves the loader); log is the messages it logged.
Outcome(kind, frame, exception, messages) ==
    [kind |-> kind, frame |-> frame, exception |-> exception, log |-> messages]

\* CF load_data
load_data(file) ==
    LET read == read_csv(file)
    IN  IF read.exception # ""
        THEN Outcome("DataFrame", EmptyFrame, "", <<cf_message(read.exception)>>)
        ELSE Outcome("DataFrame", read.frame, "", <<>>)

\* CF load_data_new: assigning a label list of another length raises a
\* ValueError, caught as every other exception
load_data_new(file, start, end) ==
    LET read == read_csv(file)
    IN  IF read.exception # ""
        THEN Outcome("DataFrame", EmptyFrame, "", <<cf_message(read.exception)>>)
        ELSE IF Len(read.frame.columns) # end - start + 2
        THEN Outcome("DataFrame", EmptyFrame, "", <<cf_message("ValueError")>>)
        ELSE Outcome("DataFrame", set_columns(read.frame, NewColumns(start, end)), "", <<>>)

\* BC load_data: every exception is printed and None returned
load_data_bc(file) ==
    LET read == read_csv(file)
    IN  IF read.exception # ""
        THEN Outcome("None", EmptyFrame, "", <<"Error loading file">>)
        ELSE Outcome("DataFrame", read.frame, "", <<>>)

\* BC load_data_new: no handler; the labels are 'Row/Col' and the wavelengths
\* start to end (220 to 1000 in the source)
load_data_new_bc(file, start, end) ==
    LET read == read_csv(file)
    IN  IF read.exception # ""
        THEN Outcome("raise", EmptyFrame, read.exception, <<>>)
        ELSE IF Len(read.frame.columns) # end - start + 2
        THEN Outcome("raise", EmptyFrame, "ValueError", <<>>)
        ELSE Outcome("DataFrame", set_columns(read.frame, NewColumns(start, end)), "", <<>>)

\* the files a loader is called on
PositionLabels == <<"0", "1", "2", "3">>
FileWidths == 0..3
FileLengths == 1..2
WavelengthRanges == {<<220, 220>>, <<220, 221>>, <<221, 222>>}

\* the table read_csv(header=None) makes of a file of the given number of
\* lines, each an identifier followed by width numbers
ReadTable(lines, width) ==
    LET cols == SubSeq(PositionLabels, 1, width + 1)
    IN  [index |-> [k \in 1..lines |-> k - 1],
         columns |-> cols,
         dtypes |-> [c \in Range(cols) |-> IF c = "0" THEN "object" ELSE "number"],
         cell |-> [r \in 0..(lines - 1) |-> [c \in Range(cols) |->
                     IF c = "0" THEN WellNames[r + 1]
                     ELSE F(r + (CHOOSE k \in 1..Len(cols) : cols[k] = c))]]]

Files ==
    {[state |-> st, table |-> EmptyFrame] : st \in {"missing", "empty", "unparsable"}}
    \cup {[state |-> "ok", table |-> ReadTable(n, w)] : n \in FileLengths, w \in FileWidths}

InitLoad ==
    /\ pc = "load"
    /\ impl \in {"CF", "BC"}
    /\ loader \in {"load_data", "load_data_new"}
    /\ path \in Files
    /\ IF loader = "load_data" THEN wavelength_range = Unset
       ELSE wavelength_range \in WavelengthRanges
    /\ loaded = Unset /\ log = <<>>
    /\ call = Unset /\ returned = Unset
    /\ deconvolution_method = "least_squares_deconvolution"
    /\ data_df = Unset /\ volumes_df = Unset
    /\ range_start = 0 /\ range_end = 0 /\ i = 0
    /\ styrene_components_pred = <<>> /\ styrene_components_actual = <<>>
    /\ ps_components_pred = <<>> /\ ps_components_actual = <<>>
    /\ ref_slice = Unset /\ fit_site = Unset
    /\ CorrIdle /\ FitIdle /\ RegIdle /\ RunIdle

\* the loader call ends: its messages are logged, and it returns or raises
Finish(outcome) ==
    /\ loaded' = Returned(outcome)
    /\ log' = log \o outcome.log
    /\ pc' = IF outcome.kind = "raise" THEN "raised" ELSE "loaded"
    /\ UNCHANGED <<path, loader, wavelength_range, helperVars, regVars, runVars, corrVars,
                   fitVars, procVars>>

LoadData ==
    /\ pc = "load" /\ impl = "CF" /\ loader = "load_data"
    /\ Finish(load_data(path))

LoadDataNew ==
    /\ pc = "load" /\ impl = "CF" /\ loader = "load_data_new"
    /\ Finish(load_data_new(path, wavelength_range[1], wavelength_range[2]))

LoadDataBC ==
    /\ pc = "load" /\ impl = "BC" /\ loader = "load_data"
    /\ Finish(load_data_bc(path))

LoadDataNewBC ==
    /\ pc = "load" /\ impl = "BC" /\ loader = "load_data_new"
    /\ Finish(load_data_new_bc(path, wavelength_range[1], wavelength_range[2]))

NextLoad == LoadData \/ LoadDataNew \/ LoadDataBC \/ LoadDataNewBC

SpecLoad == InitLoad /\ [][NextLoad]_vars

----------------------------------------------------------------------------
(* BC main: the script's entry point *)

\* the row main takes as blank: corrected.iloc[11, 1:]
MainBlankRow == 11

\* df.iloc[:, k:]
iloc_columns_from(df, k) ==
    LET keep == SubSeq(df.columns, k + 1, Len(df.columns))
    IN  [index |-> df.index,
         columns |-> keep,
         dtypes |-> [c \in Range(keep) |-> df.dtypes[c]],
         cell |-> [r \in Range(df.index) |-> [c \in Range(keep) |-> df.cell[r][c]]]]

\* What main hands to to_csv, or the exception it raises: corrected is data minus plate
\* without the first column; corrected.iloc[11, 1:] raises an IndexError on a
\* table of fewer than 12 rows; the result of corrected.apply(...) is not
\* assigned, so corrected is written as it was before the apply.
main_corrected(data, plate) ==
    LET corrected == DfSubtract(iloc_columns_from(data, 1),
                                iloc_columns_from(plate, 1), NaN)
    IN  IF Len(corrected.index) <= MainBlankRow
        THEN Outcome("raise", EmptyFrame, "IndexError", <<>>)
        ELSE Outcome("DataFrame", corrected, "", <<>>)

\* the tables main loads
MainLengths == {MainBlankRow, MainBlankRow + 1, MainBlankRow + 2}
Patterns == 0..4

PatternTable(n, a) ==
    [index |-> [k \in 1..n |-> k - 1],
     columns |-> ProcessColumns,
     dtypes |-> [c \in Range(ProcessColumns) |->
                   IF c = "Row/Col" THEN "object" ELSE "number"],
     cell |-> [r \in 0..(n - 1) |-> [c \in Range(ProcessColumns) |->
                 IF c = "Row/Col" THEN WellNames[(r % 4) + 1]
                 ELSE F(((a + 1) * r + a
                         + (CHOOSE k \in 1..Len(ProcessColumns) : ProcessColumns[k] = c)) % 5)]]]

InitMain ==
    /\ pc = "main"
    /\ impl = "BC"
    /\ \E n \in MainLengths, a \in Patterns, b \in Patterns :
          /\ raw_df = PatternTable(n, a)
          /\ plate_data = PatternTable(n, b)
    /\ blank_index = 0 /\ final_plate = Unset /\ final_plate_bc = Unset
    /\ deconvolution_method = "least_squares_deconvolution"
    /\ data_df = Unset /\ volumes_df = Unset
    /\ range_start = 0 /\ range_end = 0 /\ i = 0
    /\ styrene_components_pred = <<>> /\ styrene_components_actual = <<>>
    /\ ps_components_pred = <<>> /\ ps_components_actual = <<>>
    /\ ref_slice = Unset /\ fit_site = Unset
    /\ FitIdle /\ ScriptIdle

\* main() from the subtraction to to_csv
Main ==
    /\ pc = "main"
    /\ IF main_corrected(raw_df, plate_data).kind = "raise"
       THEN pc' = "raised" /\ saved' = saved
       ELSE pc' = "saved" /\ saved' = Returned(main_corrected(raw_df, plate_data).frame)
    /\ UNCHANGED <<files, env, steps, volumes, volumes_abs, regVars, loadVars, corrVars,
                   fitVars, procVars>>

NextMain == Main

SpecMain == InitMain /\ [][NextMain]_vars

----------------------------------------------------------------------------
(* curve_fitting_lin_reg of both files, statement by statement.  The values *)
(* of its local variables are abstracted to what decides the control flow:  *)
(*   "table"       a loaded table with rows and wavelength columns          *)
(*   "empty"       pd.DataFrame(), the CF loaders' result for a bad file    *)
(*   "none"        None                                                      *)
(*   "corrected"   a background- and blank-corrected table                  *)
(*   "nan"         a table whose numeric cells are all nan                  *)
(*   "no_columns"  a table with rows and no column                          *)
(*   "spectra"     the two reference arrays                                 *)
(*   "lists"       the four lists of process_samples, one entry per row;    *)
(*                 the tables are taken to have more than 20 rows           *)
(*   "empty_lists" the four lists, empty                                    *)
(*   "model"       a fitted LinearRegression                                *)
(*   "raise"       an exception leaves the call                             *)

InputFiles == {"data_path", "plate_path", "styrene_spectrum_path",
               "polystyrene_spectrum_path", "volumes_path", "new_data_raw_path",
               "plate_2c_path", "new_volumes_path", "crude_path"}

Locals == {"data_corrected", "spectra", "volumes_df", "lists", "regr_styrene",
           "regr_polystyrene", "new_data_raw", "plate_2c", "new_volumes_df",
           "new_data_processed", "concs_pred", "crude"}

\* a file in the given state, and the abstraction of what a loader makes of it
FileIn(state) ==
    [state |-> state, table |-> IF state = "ok" THEN ReadTable(1, 1) ELSE EmptyFrame]

Abstract(outcome) ==
    IF outcome.kind = "raise" THEN "raise"
    ELSE IF outcome.kind = "None" THEN "none"
    ELSE IF outcome.frame = EmptyFrame THEN "empty" ELSE "table"

run_load_data_new(script, state) ==
    IF script = "CF" THEN Abstract(load_data_new(FileIn(state), 220, 220))
    ELSE Abstract(load_data_new_bc(FileIn(state), 220, 220))

run_load_data(script, state) ==
    IF script = "CF" THEN Abstract(load_data(FileIn(state)))
    ELSE Abstract(load_data_bc(FileIn(state)))

\* separate_subtract_and_recombine on loaded values.  With an empty plate
\* table the aligned difference is nan in every cell; with an empty raw table
\* the difference has the plate's rows and the reindex to the raw table's
\* (no) columns leaves no column; with both empty .iloc[blank_index] raises.
run_correct(raw, plate) ==
    IF raw = "raise" \/ plate = "raise" THEN "raise"
    ELSE IF raw = "table" /\ plate = "table" THEN "corrected"
    ELSE IF raw = "table" THEN "nan"
    ELSE IF plate = "table" THEN "no_columns"
    ELSE "raise"

\* prepare_spectra: .values[0] of an empty table raises an IndexError, which
\* CF prepare_spectra catches to return (None, None)
run_prepare(script, styrene, polystyrene) ==
    IF styrene = "raise" \/ polystyrene = "raise" THEN "raise"
    ELSE IF styrene = "table" /\ polystyrene = "table" THEN "spectra"
    ELSE IF script = "CF" THEN "none" ELSE "raise"

\* process_samples: no iteration on a table without rows; in the first
\* iteration fit_spectra fails on None references or on an empty observed
\* spectrum and its None cannot be unpacked; volumes_df.iloc[i, 0] raises on
\* an empty table or on None; an all-nan spectrum is fitted (see minimize)
run_process(data, vols, spectra) ==
    IF data = "empty" THEN "empty_lists"
    ELSE IF spectra = "none" \/ data = "no_columns" THEN "raise"
    ELSE IF vols \in {"empty", "none"} THEN "raise"
    ELSE "lists"

\* the split and linear_regression: see linear_regression
run_calibrate(lists) == IF lists = "lists" THEN "model" ELSE "raise"

\* regr.predict(np.array(components).reshape(-1, 1)): an array without
\* samples is rejected with a ValueError
run_predict(model, lists) ==
    IF model = "model" /\ lists = "lists" THEN "predictions" ELSE "raise"

MaxUnreadable == 2

InitRun ==
    /\ pc = "load_and_correct"
    /\ impl \in {"CF", "BC"}
    /\ files \in {f \in [InputFiles -> {"ok", "missing"}] :
                     Cardinality({p \in InputFiles : f[p] = "missing"}) <= MaxUnreadable}
    /\ env = [v \in Locals |-> "unset"]
    /\ steps = <<>>
    /\ saved = Unset /\ volumes = Unset /\ volumes_abs = Unset
    /\ deconvolution_method = "least_squares_deconvolution"
    /\ data_df = Unset /\ volumes_df = Unset
    /\ range_start = 0 /\ range_end = 0 /\ i = 0
    /\ styrene_components_pred = <<>> /\ styrene_components_actual = <<>>
    /\ ps_components_pred = <<>> /\ ps_components_actual = <<>>
    /\ ref_slice = Unset /\ fit_site = Unset
    /\ CorrIdle /\ FitIdle /\ RegIdle /\ LoadIdle

\* a statement assigns value to the local variable, or raises out of the
\* function; did is what the statement did, for the history
Assign(variable, value, did, next) ==
    /\ steps' = steps \o did
    /\ IF value = "raise"
       THEN pc' = "raised" /\ env' = env
       ELSE pc' = next /\ env' = [env EXCEPT ![variable] = value]
    /\ UNCHANGED <<saved, files, volumes, volumes_abs, regVars, loadVars, corrVars,
                   fitVars, procVars>>

\* data_corrected = separate_subtract_and_recombine(load_data_new(data_path),
\*                                                  load_data_new(plate_path))
LoadAndCorrect ==
    /\ pc = "load_and_correct"
    /\ Assign("data_corrected",
              run_correct(run_load_data_new(impl, files["data_path"]),
                          run_load_data_new(impl, files["plate_path"])),
              IF "raise" \in {run_load_data_new(impl, files["data_path"]),
                              run_load_data_new(impl, files["plate_path"])}
              THEN <<>> ELSE <<<<"correct", "data">>>>,
              "prepare_spectra")

\* styrene_spectrum, polystyrene_spectrum = prepare_spectra(...)
RunPrepareSpectra ==
    /\ pc = "prepare_spectra"
    /\ Assign("spectra",
              run_prepare(impl, run_load_data_new(impl, files["styrene_spectrum_path"]),
                          run_load_data_new(impl, files["polystyrene_spectrum_path"])),
              <<>>, "load_volumes")

\* volumes_df = load_data(volumes_path)
LoadVolumes ==
    /\ pc = "load_volumes"
    /\ Assign("volumes_df", run_load_data(impl, files["volumes_path"]), <<>>,
              "process_samples")

\* the four lists = process_samples(data_corrected, volumes_df, ...)
RunProcessSamples ==
    /\ pc = "process_samples"
    /\ Assign("lists",
              run_process(env["data_corrected"], env["volumes_df"], env["spectra"]),
              <<<<"deconvolve", "data">>>>, "calibrate_styrene")

\* the styrene split and regr_styrene, y_pred = linear_regression(...)
CalibrateStyrene ==
    /\ pc = "calibrate_styrene"
    /\ Assign("regr_styrene", run_calibrate(env["lists"]),
              <<<<"fit", "styrene">>>>, "calibrate_polystyrene")

\* the polystyrene split and regr_polystyrene, y_pred = linear_regression(...)
CalibratePolystyrene ==
    /\ pc = "calibrate_polystyrene"
    /\ Assign("regr_polystyrene", run_calibrate(env["lists"]),
              <<<<"fit", "polystyrene">>>>, "load_new_data")

\* new_data_raw = load_data_new(new_data_raw_path)
LoadNewData ==
    /\ pc = "load_new_data"
    /\ Assign("new_data_raw", run_load_data_new(impl, files["new_data_raw_path"]),
              <<>>, "load_plate_2c")

\* plate_2c = load_data_new(plate_2c_path)
LoadPlate2c ==
    /\ pc = "load_plate_2c"
    /\ Assign("plate_2c", run_load_data_new(impl, files["plate_2c_path"]),
              <<>>, "load_new_volumes")

\* new_volumes_df = load_data(new_volumes_path)
LoadNewVolumes ==
    /\ pc = "load_new_volumes"
    /\ Assign("new_volumes_df", run_load_data(impl, files["new_volumes_path"]),
              <<>>, "correct_new_data")

\* new_data_processed = separate_subtract_and_recombine(new_data_raw, plate_2c)
CorrectNewData ==
    /\ pc = "correct_new_data"
    /\ Assign("new_data_processed", run_correct(env["new_data_raw"], env["plate_2c"]),
              <<<<"correct", "new_data">>>>, "process_new_data")

\* the four lists = process_samples(new_data_processed, new_volumes_df, ...)
ProcessNewData ==
    /\ pc = "process_new_data"
    /\ Assign("lists",
              run_process(env["new_data_processed"], env["new_volumes_df"],
                          env["spectra"]),
              <<<<"deconvolve", "new_data">>>>, "predict_new_data")

\* regr_styrene.predict(...), regr_polystyrene.predict(...) and the logged
\* metrics; BC curve_fitting_lin_reg ends here
PredictNewData ==
    /\ pc = "predict_new_data"
    /\ Assign("concs_pred",
              IF run_predict(env["regr_styrene"], env["lists"]) = "raise"
              THEN "raise" ELSE run_predict(env["regr_polystyrene"], env["lists"]),
              <<<<"apply", "new_data">>>>,
              IF impl = "CF" THEN "load_crude" ELSE "done")

\* CF: crude = load_data_new(...)
LoadCrude ==
    /\ pc = "load_crude" /\ impl = "CF"
    /\ Assign("crude", run_load_data_new(impl, files["crude_path"]), <<>>,
              "process_crude")

\* CF: the four lists = process_samples(crude, new_volumes_df, ...)
ProcessCrude ==
    /\ pc = "process_crude" /\ impl = "CF"
    /\ Assign("lists",
              run_process(env["crude"], env["new_volumes_df"], env["spectra"]),
              <<<<"deconvolve", "crude">>>>, "predict_crude")

\* CF: the two predict calls on the crude coefficients and the three log_msg
PredictCrude ==
    /\ pc = "predict_crude" /\ impl = "CF"
    /\ Assign("concs_pred",
              IF run_predict(env["regr_styrene"], env["lists"]) = "raise"
              THEN "raise" ELSE run_predict(env["regr_polystyrene"], env["lists"]),
              <<<<"apply", "crude">>>>, "done")

NextRun ==
    \/ LoadAndCorrect \/ RunPrepareSpectra \/ LoadVolumes \/ RunProcessSamples
    \/ CalibrateStyrene \/ CalibratePolystyrene
    \/ LoadNewData \/ LoadPlate2c \/ LoadNewVolumes \/ CorrectNewData
    \/ ProcessNewData \/ PredictNewData
    \/ LoadCrude \/ ProcessCrude \/ PredictCrude

SpecRun == InitRun /\ [][NextRun]_vars

----------------------------------------------------------------------------
(* Volumes to concentrations: process_samples, spectra_pca, ml_screening   *)
(* and verify_models.  An ndarray is a sequence of rows; only its first    *)
(* two columns, the styrene and the polystyrene volume, are kept.          *)

\* the first two columns of pd.concat([volumes, ...], axis=1).to_numpy()
to_numpy(df) == [k \in 1..Len(df.index) |-> <<iloc(df, k - 1, 0), iloc(df, k - 1, 1)>>]

\* 0.025 / 300 and 0.25 / 300
styrene_factor == FDiv(<<25, 1000>>, F(300))
polystyrene_factor == FDiv(<<25, 100>>, F(300))

\* the two statements with the factors of the columns exchanged
imul_columns_exchanged(array) ==
    [k \in 1..Len(array) |-> <<FMul(array[k][1], polystyrene_factor),
                               FMul(array[k][2], styrene_factor)>>]

\* array[:, 0] *= 0.025 / 300; array[:, 1] *= 0.25 / 300
imul_columns(array) ==
    [k \in 1..Len(array) |-> <<FMul(array[k][1], styrene_factor),
                               FMul(array[k][2], polystyrene_factor)>>]

\* the two lists of actual concentrations process_samples builds, row by row
actual_components(df) ==
    <<[k \in 1..Len(df.index) |-> styrene_concentration(iloc(df, k - 1, 0))],
      [k \in 1..Len(df.index) |-> polystyrene_concentration(iloc(df, k - 1, 1))]>>

\* the rationals that stand for floats are kept to denominators up to this
MaxDenominator == 1000000000

\* array can be multiplied by the two factors within MaxDenominator
Representable(array) ==
    \A k \in 1..Len(array) :
       /\ array[k][1][2] <= MaxDenominator \div styrene_factor[2]
       /\ array[k][2][2] <= MaxDenominator \div polystyrene_factor[2]

Called(site) == {k \in 1..Len(steps) : steps[k][1] = site}

InitConvert ==
    /\ pc = "convert"
    /\ \E n \in 1..MaxSamples :
          volumes_df \in {VolumeFrame(rows) : rows \in [1..n -> VolumeRows]}
    /\ volumes = to_numpy(volumes_df)
    /\ volumes_abs = Unset
    /\ steps = <<>>
    /\ saved = Unset /\ files = Unset /\ env = Unset
    /\ impl = "CF" /\ deconvolution_method = "least_squares_deconvolution"
    /\ data_df = Unset
    /\ range_start = 0 /\ range_end = 0 /\ i = 0
    /\ styrene_components_pred = <<>> /\ styrene_components_actual = <<>>
    /\ ps_components_pred = <<>> /\ ps_components_actual = <<>>
    /\ ref_slice = Unset /\ fit_site = Unset
    /\ CorrIdle /\ FitIdle /\ RegIdle /\ LoadIdle

\* process_samples(data_df, volumes_df, ...): the appends to the two lists
\* of actual concentrations over the whole loop
ConvertProcessSamples ==
    /\ pc = "convert"
    /\ Called("process_samples") = {}
    /\ styrene_components_actual' = actual_components(volumes_df)[1]
    /\ ps_components_actual' = actual_components(volumes_df)[2]
    /\ steps' = Append(steps, <<"process_samples", to_numpy(volumes_df),
                                [k \in 1..Len(volumes_df.index) |->
                                    <<styrene_components_actual'[k],
                                      ps_components_actual'[k]>>]>>)
    /\ UNCHANGED <<pc, saved, files, env, volumes, volumes_abs, regVars, loadVars,
                   corrVars, fitVars, impl, deconvolution_method, data_df, volumes_df,
                   range_start, range_end, i, styrene_components_pred,
                   ps_components_pred, ref_slice, fit_site>>

\* spectra_pca(df, num_components, volumes): the parameter is the caller's
\* array and the two statements write into it; the caller may call again
SpectraPca ==
    /\ pc = "convert"
    /\ Representable(volumes)
    /\ volumes' = imul_columns(volumes)
    /\ steps' = Append(steps, <<"spectra_pca", volumes, volumes'>>)
    /\ UNCHANGED <<pc, saved, files, env, volumes_abs, regVars, loadVars, corrVars,
                   fitVars, procVars>>

\* ml_screening(plate_path, data_path, volumes_df, out_path): volumes_abs is
\* a new array, volumes_df is left as it was
MlScreening ==
    /\ pc = "convert"
    /\ Called("ml_screening") = {}
    /\ volumes_abs' = Returned(imul_columns(to_numpy(volumes_df)))
    /\ steps' = Append(steps, <<"ml_screening", to_numpy(volumes_df), volumes_abs'[1]>>)
    /\ UNCHANGED <<pc, saved, files, env, volumes, regVars, loadVars, corrVars,
                   fitVars, procVars>>

\* verify_models(plate_path, data_path, volumes_df, ...): as ml_screening
VerifyModels ==
    /\ pc = "convert"
    /\ Called("verify_models") = {}
    /\ volumes_abs' = Returned(imul_columns(to_numpy(volumes_df)))
    /\ steps' = Append(steps, <<"verify_models", to_numpy(volumes_df), volumes_abs'[1]>>)
    /\ UNCHANGED <<pc, saved, files, env, volumes, regVars, loadVars, corrVars,
                   fitVars, procVars>>

NextConvert == ConvertProcessSamples \/ SpectraPca \/ MlScreening \/ VerifyModels

SpecConvert == InitConvert /\ [][NextConvert]_vars

----------------------------------------------------------------------------
(* Table helpers of the BC file: group_and_calculate, combine_sample_names *)

\* the elements of a set of integers in ascending order
RECURSIVE Sorted(_)
Sorted(S) ==
    IF S = {} THEN <<>>
    ELSE LET least == CHOOSE x \in S : \A y \in S : x <= y
         IN  <<least>> \o Sorted(S \ {least})

\* the square root of v, kept as a term
Sqrt(v) == [sqrt |-> v]

\* df.reset_index(drop=True)
reset_index(df) ==
    [index |-> [k \in 1..Len(df.index) |-> k - 1],
     columns |-> df.columns,
     dtypes |-> df.dtypes,
     cell |-> [r \in 0..(Len(df.index) - 1) |-> df.cell[df.index[r + 1]]]]

\* the group key with the remainder in place of the quotient
groupby_key_remainder(label, group_size) == label % group_size

\* df.index // group_size
groupby_key(label, group_size) == label \div group_size

\* Series.mean() and Series.std() (ddof = 1) of the values of one group
group_mean(values) == Mean(values)
group_std(values) ==
    Sqrt(FDiv(SumSeq(VSquare(VSub(values, [k \in 1..Len(values) |-> Mean(values)]))),
              F(Len(values) - 1)))

\* group_and_calculate: the groups are in ascending order of their key and
\* the result is indexed from 0.  For another operation grouped_df is the
\* DataFrameGroupBy itself, which has no reset_index: AttributeError.
group_and_calculate(df, operation, group_size) ==
    LET keys == Sorted({groupby_key(r, group_size) : r \in Range(df.index)})
        rows(k) == SelectSeq(df.index, LAMBDA r : groupby_key(r, group_size) = k)
        column(k, c) == [j \in 1..Len(rows(k)) |-> df.cell[rows(k)[j]][c]]
        grouped_df ==
            [index |-> keys,
             columns |-> df.columns,
             dtypes |-> df.dtypes,
             cell |-> [k \in Range(keys) |-> [c \in Range(df.columns) |->
                         IF operation = "mean" THEN group_mean(column(k, c))
                         ELSE group_std(column(k, c))]]]
    IN  IF operation \in {"mean", "std"}
        THEN Outcome("DataFrame", reset_index(grouped_df), "", <<>>)
        ELSE Outcome("raise", EmptyFrame, "AttributeError", <<>>)

\* df.drop(labels) with nothing dropped
drop_nothing(df, labels) == df

\* df.drop(labels): the rows with these labels removed
drop(df, labels) ==
    LET keep == SelectSeq(df.index, LAMBDA r : r \notin labels)
    IN  [index |-> keep,
         columns |-> df.columns,
         dtypes |-> df.dtypes,
         cell |-> [r \in Range(keep) |-> df.cell[r]]]

\* combine_sample_names(df, sample_names, blanks); blanks is [type, value].
\* drop raises a KeyError for a label the index does not have.
combine_sample_names(df, sample_names, blanks) ==
    IF blanks.type = "NoneType"
    THEN Outcome("DataFrame", concat_axis1(sample_names, reset_index(df)), "", <<>>)
    ELSE IF blanks.type = "int"
    THEN IF \E b \in 0..(blanks.value - 1) : b \notin Range(df.index)
         THEN Outcome("raise", EmptyFrame, "KeyError", <<>>)
         ELSE Outcome("DataFrame",
                      concat_axis1(sample_names,
                                   reset_index(drop(df, 0..(blanks.value - 1)))),
                      "", <<>>)
    ELSE Outcome("None", EmptyFrame, "", <<>>)

MaxGroupRows == 4
MaxGroupSize == 3
GroupValues == {0, 1, 3}

\* a numeric table of n rows indexed from 0
NumericTable(n, base) ==
    [index |-> [k \in 1..n |-> k - 1],
     columns |-> <<"220", "221">>,
     dtypes |-> [c \in {"220", "221"} |-> "number"],
     cell |-> [r \in 0..(n - 1) |-> [c \in {"220", "221"} |->
                 IF c = "220" THEN F(base[r]) ELSE F(base[r] + r)]]]

SampleLabels == <<"blank", "styrene", "polystyrene", "mix 1", "mix 2", "mix 3">>

\* the table of m sample names, indexed from 0
SampleNames(m) ==
    [index |-> [k \in 1..m |-> k - 1],
     columns |-> <<"Sample">>,
     dtypes |-> [c \in {"Sample"} |-> "object"],
     cell |-> [r \in 0..(m - 1) |-> [c \in {"Sample"} |-> SampleLabels[r + 1]]]]

Blanks ==
    {[type |-> "NoneType", value |-> 0], [type |-> "bool", value |-> 1],
     [type |-> "str", value |-> 0]}
    \cup {[type |-> "int", value |-> b] : b \in 0..(MaxGroupRows + 1)}

InitHelper ==
    /\ pc = "call"
    /\ \E n \in 1..MaxGroupRows :
       \E base \in [0..(n - 1) -> GroupValues] :
          \/ \E operation \in {"mean", "std", "sum"}, g \in 1..MaxGroupSize :
                call = [name |-> "group_and_calculate", df |-> NumericTable(n, base),
                        operation |-> operation, group_size |-> g,
                        sample_names |-> EmptyFrame,
                        blanks |-> [type |-> "NoneType", value |-> 0]]
          \/ /\ \A r \in 0..(n - 1) : base[r] = r % 2
             /\ \E m \in 1..MaxGroupRows, blanks \in Blanks :
                call = [name |-> "combine_sample_names", df |-> NumericTable(n, base),
                        operation |-> "", group_size |-> 0,
                        sample_names |-> SampleNames(m), blanks |-> blanks]
    /\ returned = Unset
    /\ path = Unset /\ loader = "" /\ wavelength_range = Unset
    /\ loaded = Unset /\ log = <<>>
    /\ CorrIdle /\ FitIdle /\ ProcIdle /\ RegIdle /\ RunIdle

Return(outcome) ==
    /\ returned' = Returned(outcome)
    /\ pc' = IF outcome.kind = "raise" THEN "raised" ELSE "returned"
    /\ UNCHANGED <<call, path, loader, wavelength_range, loaded, log, regVars, runVars,
                   corrVars, fitVars, procVars>>

GroupAndCalculate ==
    /\ pc = "call" /\ call.name = "group_and_calculate"
    /\ Return(group_and_calculate(call.df, call.operation, call.group_size))

CombineSampleNames ==
    /\ pc = "call" /\ call.name = "combine_sample_names"
    /\ Return(combine_sample_names(call.df, call.sample_names, call.blanks))

NextHelper == GroupAndCalculate \/ CombineSampleNames

SpecHelper == InitHelper /\ [][NextHelper]_vars

----------------------------------------------------------------------------
(* ml_screening: the training loop, the plotting loop and the returned     *)
(* metrics table.  Fitting is abstracted: what each fitted model predicts  *)
(* for the test samples is an input of the run.                            *)

\* the keys of the models dictionary, in insertion order
ModelNames == <<"Linear Regression", "Ridge Regression", "Random Forest">>

\* y_test[:, 0] and y_test[:, 1]
TestConcentrations == <<<<F(0), F(2)>>, <<F(1), F(3)>>>>

\* what a fitted model may predict for the two columns
Predictions ==
    {<<<<F(0), F(2)>>, <<F(1), F(3)>>>>, <<<<F(1), F(2)>>, <<F(1), F(2)>>>>,
     <<<<F(0), F(1)>>, <<F(2), F(3)>>>>}

\* the four metrics of a prediction, as the training loop computes them
screening_metrics(actual, predicted) ==
    [r2_styrene |-> r2_score(actual[1], predicted[1]),
     mse_styrene |-> mean_squared_error(actual[1], predicted[1]),
     r2_polystyrene |-> r2_score(actual[2], predicted[2]),
     mse_polystyrene |-> mean_squared_error(actual[2], predicted[2])]

InitScreening ==
    /\ pc = "train"
    /\ call \in {[name |-> "ml_screening", predictions |-> f] :
                    f \in [1..Len(ModelNames) -> Predictions]}
    /\ env = [model |-> 0, y_pred |-> Unset, computed |-> Unset,
              metrics |-> <<>>, axes |-> <<>>]
    /\ returned = Unset
    /\ path = Unset /\ loader = "" /\ wavelength_range = Unset
    /\ loaded = Unset /\ log = <<>>
    /\ saved = Unset /\ files = Unset /\ steps = <<>>
    /\ volumes = Unset /\ volumes_abs = Unset
    /\ CorrIdle /\ FitIdle /\ ProcIdle /\ RegIdle

ScreeningUnchanged ==
    UNCHANGED <<call, path, loader, wavelength_range, loaded, log, saved, files, steps,
                volumes, volumes_abs, regVars, corrVars, fitVars, impl,
                deconvolution_method, data_df, volumes_df, range_start, range_end,
                listVars, ref_slice, fit_site>>

\* one iteration of 'for name, model in models.items()': fit, predict, the
\* four metrics, and the appends to the metrics dictionary
TrainModel ==
    /\ pc = "train" /\ i < Len(ModelNames)
    /\ env' = [env EXCEPT
          !.model = i + 1,
          !.y_pred = Returned(call.predictions[i + 1]),
          !.computed = Returned(screening_metrics(TestConcentrations,
                                                  call.predictions[i + 1])),
          !.metrics = Append(env.metrics,
                             [name |-> ModelNames[i + 1],
                              values |-> screening_metrics(TestConcentrations,
                                                           call.predictions[i + 1])])]
    /\ i' = i + 1
    /\ pc' = "train"
    /\ UNCHANGED returned
    /\ ScreeningUnchanged

\* the training loop is over; enumerate starts at 0
StartPlotting ==
    /\ pc = "train" /\ i = Len(ModelNames)
    /\ i' = 0
    /\ pc' = "plot"
    /\ UNCHANGED <<env, returned>>
    /\ ScreeningUnchanged

\* one iteration of 'for i, (name, y_pred) in enumerate(models.items())':
\* y_pred = model.predict(X_test_scaled) with the model variable as the
\* training loop left it, then the two panels of row i with the title name
\* and the text of r2_styrene, mse_styrene, r2_polystyrene, mse_polystyrene
PlotModel ==
    /\ pc = "plot" /\ i < Len(ModelNames)
    /\ env' = [env EXCEPT
          !.y_pred = Returned(call.predictions[env.model]),
          !.axes = Append(env.axes,
                          [name |-> ModelNames[i + 1],
                           y_pred |-> call.predictions[env.model],
                           values |-> env.computed[1]])]
    /\ i' = i + 1
    /\ pc' = "plot"
    /\ UNCHANGED returned
    /\ ScreeningUnchanged

\* metrics_df = pd.DataFrame(metrics); return models, metrics_df, scaler
ReturnMetrics ==
    /\ pc = "plot" /\ i = Len(ModelNames)
    /\ returned' = Returned(env.metrics)
    /\ pc' = "returned"
    /\ UNCHANGED <<env, i>>
    /\ ScreeningUnchanged

NextScreening == TrainModel \/ StartPlotting \/ PlotModel \/ ReturnMetrics

SpecScreening == InitScreening /\ [][NextScreening]_vars

----------------------------------------------------------------------------
(* The feature matrix of ml_screening and verify_models.  A table is kept  *)
(* as the sequence of its rows; the volume table and the absorbance        *)
(* columns data_corrected.iloc[:, 1:] have the same index 0..n-1, so       *)
(* pd.concat(axis=1) puts row r of the one in front of row r of the other. *)

start_index == 40
end_index == 101

\* pd.concat([volumes, data_corrected.iloc[:, 1:]], axis=1).to_numpy()
concat_to_numpy(vols, absorbances) ==
    [r \in 1..Len(absorbances) |-> vols[r] \o absorbances[r]]

\* array[:, 0] *= 0.025 / 300; array[:, 1] *= 0.25 / 300 on an array of any
\* width of two or more columns
imul_first_columns(array) ==
    [r \in 1..Len(array) |->
       [c \in 1..Len(array[r]) |->
          IF c = 1 THEN FMul(array[r][c], styrene_factor)
          ELSE IF c = 2 THEN FMul(array[r][c], polystyrene_factor)
          ELSE array[r][c]]]

\* X = volumes_abs[:, start_index:end_index] and y = volumes_abs[:, :2]
feature_matrix(array, start, stop) ==
    [r \in 1..Len(array) |-> Slice(array[r], start, stop)]

\* unknown_spectrum on a table kept as its rows: the spectrum of row r,
\* data_df.select_dtypes(include='number').iloc[r, :].values[range_start:range_end]
spectrum_values(absorbances, r, start, stop) == Slice(absorbances[r + 1], start, stop)

\* the widest tables taken: columns of the volume table, wavelengths read
MaxVolumeColumns == 3
MaxWavelengths == 105

\* a spectrum of MaxWavelengths points that starts at base and rises by slope
\* from each wavelength to the next
Spectrum(base, slope) == [j \in 1..MaxWavelengths |-> F(base + slope * (j - 1))]
Spectra == {Spectrum(0, 0), Spectrum(0, 1), Spectrum(1, 2)}
VolumeRow(k) == SubSeq(<<F(30), F(270)>> \o [j \in 1..MaxVolumeColumns |-> F(0)], 1, k)

InitFeatures ==
    /\ pc = "call"
    /\ \E n \in 1..MaxSamples, k \in 1..MaxVolumeColumns :
          call \in {[name |-> f, volumes |-> [r \in 1..n |-> VolumeRow(k)],
                     absorbances |-> a] :
                       f \in {"ml_screening", "verify_models"}, a \in [1..n -> Spectra]}
    /\ returned = Unset
    /\ path = Unset /\ loader = "" /\ wavelength_range = Unset
    /\ loaded = Unset /\ log = <<>>
    /\ CorrIdle /\ FitIdle /\ ProcIdle /\ RegIdle /\ RunIdle

\* volumes_abs, X and the targets, as both functions compute them
Features(vols, absorbances) ==
    /\ volumes_abs' = Returned(imul_first_columns(concat_to_numpy(vols, absorbances)))
    /\ returned' = Returned([X |-> feature_matrix(volumes_abs'[1], start_index, end_index),
                             y |-> feature_matrix(volumes_abs'[1], 0, 2)])
    /\ pc' = "returned"
    /\ UNCHANGED <<call, path, loader, wavelength_range, loaded, log, regVars, saved,
                   files, env, steps, volumes, corrVars, fitVars, procVars>>

\* ml_screening up to the train/test split
MlScreeningFeatures ==
    /\ pc = "call" /\ call.name = "ml_screening"
    /\ Features(call.volumes, call.absorbances)

\* verify_models up to scaler.transform
VerifyModelsFeatures ==
    /\ pc = "call" /\ call.name = "verify_models"
    /\ Features(call.volumes, call.absorbances)

NextFeatures == MlScreeningFeatures \/ VerifyModelsFeatures

SpecFeatures == InitFeatures /\ [][NextFeatures]_vars

----------------------------------------------------------------------------
(* Properties of background correction (SpecCorrection) *)

NumericResult(result, r, w) == result[1].cell[r][w]

\* (raw[r][w] - background[r][w]) - (raw[b][w] - background[b][w])
ExpectedCell(r, w, b) ==
    FSub(FSub(raw_df.cell[r][w], plate_data.cell[r][w]),
         FSub(raw_df.cell[b][w], plate_data.cell[b][w]))

\* C1: for a raw table and a plate-background table with the same rows and
\* wavelength columns, every numeric cell of the table that
\* separate_subtract_and_recombine returns is (raw - background) at that cell
\* minus (raw - background) at the blank row: row blank_index in CF, row 0 in BC.
C1_CellsBackgroundAndBlankCorrected ==
    /\ final_plate # Unset =>
          \A r \in Range(raw_df.index), w \in Range(Wavelengths) :
             NumericResult(final_plate, r, w) =
                ExpectedCell(r, w, raw_df.index[blank_index + 1])
    /\ final_plate_bc # Unset =>
          \A r \in Range(raw_df.index), w \in Range(Wavelengths) :
             NumericResult(final_plate_bc, r, w) = ExpectedCell(r, w, raw_df.index[1])

\* both implementations have run, the blank is not the default row, and the
\* background and the result are not all zero
C1_Witness ==
    /\ final_plate # Unset /\ final_plate_bc # Unset
    /\ blank_index = 1
    /\ \E r \in Range(raw_df.index), w \in Range(Wavelengths) :
          /\ plate_data.cell[r][w] # F(0)
          /\ NumericResult(final_plate, r, w) # F(0)
          /\ NumericResult(final_plate_bc, r, w) # NumericResult(final_plate, r, w)

\* C9: the identifier columns of the raw table appear in the output with
\* unchanged values, and the output's columns are in the raw table's column
\* order, wherever the identifier column stands among the numeric ones.
C9_IdentifiersAndColumnOrderPreserved ==
    \A result \in {final_plate, final_plate_bc} :
       result # Unset =>
          /\ result[1].columns = raw_df.columns
          /\ \A r \in Range(raw_df.index) :
                result[1].cell[r]["Row/Col"] = raw_df.cell[r]["Row/Col"]

\* C10: in the output of separate_subtract_and_recombine the blank row (row
\* blank_index in CF, row 0 in BC) is zero in every numeric column.
C10_BlankRowIsZero ==
    /\ final_plate # Unset =>
          \A w \in Range(Wavelengths) :
             NumericResult(final_plate, raw_df.index[blank_index + 1], w) = F(0)
    /\ final_plate_bc # Unset =>
          \A w \in Range(Wavelengths) :
             NumericResult(final_plate_bc, raw_df.index[1], w) = F(0)

\* both implementations have run with a blank other than row 0 in CF, and a
\* row other than the blank is not zero
C10_Witness ==
    /\ final_plate # Unset /\ final_plate_bc # Unset
    /\ blank_index = 1
    /\ \E w \in Range(Wavelengths) :
          /\ NumericResult(final_plate, raw_df.index[1], w) # F(0)
          /\ NumericResult(final_plate_bc, raw_df.index[2], w) # F(0)

\* C11: for a sample table used as its own background table, every numeric
\* cell of the table separate_subtract_and_recombine returns is zero.
C11_SelfBackgroundIsZero ==
    plate_data = raw_df =>
       \A result \in {final_plate, final_plate_bc} :
          result # Unset =>
             \A r \in Range(raw_df.index), w \in Range(Wavelengths) :
                NumericResult(result, r, w) = F(0)

\* both implementations have run on a table that is its own background and
\* whose rows and columns differ
C11_Witness ==
    /\ plate_data = raw_df
    /\ final_plate # Unset /\ final_plate_bc # Unset
    /\ raw_df.cell[0]["220"] # raw_df.cell[1]["220"]
    /\ raw_df.cell[0]["220"] # raw_df.cell[0]["221"]
    /\ \A r \in Range(raw_df.index), w \in Range(Wavelengths) :
          NumericResult(final_plate, r, w) = F(0)

\* C22: for a raw and a background table with the same rows and columns and
\* with row 0 as the blank, separate_subtract_and_recombine of the CF file
\* and of the BC file return the same table, columns in the same order.
C22_SameTableInBothFiles ==
    (blank_index = 0 /\ final_plate # Unset /\ final_plate_bc # Unset)
    => final_plate = final_plate_bc

----------------------------------------------------------------------------
(* Properties of background correction of differing tables (SpecMismatch) *)

WavelengthColumns(df) == Range(df.columns) \ {"Row/Col"}

\* the row or the column of the cell exists in only one of the two tables
OnlyInOne(r, c) ==
    \/ (r \in Range(raw_df.index)) # (r \in Range(plate_data.index))
    \/ (c \in Range(raw_df.columns)) # (c \in Range(plate_data.columns))

\* C17 as stated: for a background table whose rows or numeric columns
\* differ from the raw table's, separate_subtract_and_recombine returns a
\* table in which every cell whose row or column exists in only one of the
\* two tables is NaN.
C17_CellsOfOneTableAreNaN ==
    \A result \in {final_plate, final_plate_bc} :
       result # Unset =>
          \A r \in Range(result[1].index), c \in WavelengthColumns(result[1]) :
             OnlyInOne(r, c) => IsNaN(result[1].cell[r][c])

\* raw - background at a cell, an operand the table does not have being 0
Filled(r, c) ==
    IF Has(raw_df, r, c) /\ Has(plate_data, r, c)
    THEN FSub(raw_df.cell[r][c], plate_data.cell[r][c])
    ELSE IF Has(raw_df, r, c) THEN raw_df.cell[r][c]
    ELSE IF Has(plate_data, r, c) THEN FSub(F(0), plate_data.cell[r][c])
    ELSE NaN

\* C17, amended: separate_subtract_and_recombine returns a table for tables
\* whose rows or numeric columns differ.  In CF the table has the raw
\* table's columns and the rows of both tables, and every numeric cell whose
\* row or column exists in only one table is NaN.  In BC the table has the
\* rows and the numeric columns of both tables, and such a cell is computed
\* with 0 for the operand that is absent: it is Filled at the cell minus
\* Filled at row 0 of its column, a number unless both tables lack the cell.
C17_Amended ==
    /\ final_plate # Unset =>
          /\ final_plate[1].columns = raw_df.columns
          /\ Range(final_plate[1].index) =
                Range(raw_df.index) \cup Range(plate_data.index)
          /\ \A r \in Range(final_plate[1].index),
                c \in WavelengthColumns(final_plate[1]) :
                OnlyInOne(r, c) => IsNaN(final_plate[1].cell[r][c])
    /\ final_plate_bc # Unset =>
          /\ Range(final_plate_bc[1].index) =
                Range(raw_df.index) \cup Range(plate_data.index)
          /\ WavelengthColumns(final_plate_bc[1]) =
                WavelengthColumns(raw_df) \cup WavelengthColumns(plate_data)
          /\ \A r \in Range(final_plate_bc[1].index),
                c \in WavelengthColumns(final_plate_bc[1]) :
                OnlyInOne(r, c) =>
                   /\ final_plate_bc[1].cell[r][c] = FSub(Filled(r, c), Filled(0, c))
                   /\ IsNaN(final_plate_bc[1].cell[r][c])
                         = (~Has(raw_df, r, c) /\ ~Has(plate_data, r, c))

\* both implementations have run on tables that differ in rows and in
\* columns; CF has a NaN cell where BC has a number other than zero
C17_Witness ==
    /\ final_plate # Unset /\ final_plate_bc # Unset
    /\ Len(raw_df.index) # Len(plate_data.index)
    /\ WavelengthColumns(raw_df) \ WavelengthColumns(plate_data) # {}
    /\ WavelengthColumns(plate_data) \ WavelengthColumns(raw_df) # {}
    /\ \E r \in Range(final_plate[1].index), c \in WavelengthColumns(final_plate[1]) :
          /\ OnlyInOne(r, c)
          /\ IsNaN(final_plate[1].cell[r][c])
          /\ IsFinite(final_plate_bc[1].cell[r][c])
          /\ final_plate_bc[1].cell[r][c] # F(0)

----------------------------------------------------------------------------
(* Properties of a single fit (SpecFit) *)

IsPair(x) == Len(x) = 2

\* C2: the coefficients a fit returns are >= 0, for least_squares_deconvolution
\* and for scipy_curve_fit, whatever the observed and reference spectra.
C2_CoefficientsNonNegative ==
    (fit_result # Unset /\ IsPair(fit_result[1])) =>
        /\ FLeq(F(0), fit_result[1][1])
        /\ FLeq(F(0), fit_result[1][2])

\* the coefficients a >= 0, b >= 0 of the exact mixtures considered
MixtureCoefficients == {F(0), <<1, 2>>, F(1), <<3, 2>>, F(2)}

IsMixture(a, b) ==
    sample_spectrum = combined_spectrum(<<a, b>>, styrene_spectrum, polystyrene_spectrum)

\* the fit was made by the bounded minimiser (CF least_squares_deconvolution,
\* BC fit_spectra, BC main_4)
FittedByMinimize == fit_result # Unset /\ opt_result # Unset

LinearlyIndependent(x, y) ==
    FSub(FMul(Dot(x, x), Dot(y, y)), FMul(Dot(x, y), Dot(x, y))) # F(0)

\* C3 as stated: for an observed spectrum that is exactly a*ref1 + b*ref2 with
\* a, b >= 0, deconvolution returns (a, b) and the R-squared of the fitted
\* spectrum is 1.
C3_ExactMixtureRecovered ==
    \A a \in MixtureCoefficients, b \in MixtureCoefficients :
       (FittedByMinimize /\ IsMixture(a, b)) =>
          /\ fit_result[1] = <<a, b>>
          /\ r_squared # Unset => r_squared[1] = F(1)

\* C3 as amended: for an observed spectrum that is exactly a*ref1 + b*ref2 with
\* a, b >= 0, deconvolution returns (a, b) when ref1 and ref2 are linearly
\* independent over the fitted range, and the R-squared of the fitted spectrum
\* is 1 when the observed spectrum is not constant and is not a finite number
\* when it is constant.
C3_ExactMixtureRecoveredWhenDetermined ==
    \A a \in MixtureCoefficients, b \in MixtureCoefficients :
       (FittedByMinimize /\ IsMixture(a, b)) =>
          /\ LinearlyIndependent(styrene_spectrum, polystyrene_spectrum) =>
                fit_result[1] = <<a, b>>
          /\ (r_squared # Unset /\ SS_tot_of(sample_spectrum) # F(0)) =>
                r_squared[1] = F(1)
          /\ (r_squared # Unset /\ SS_tot_of(sample_spectrum) = F(0)) =>
                ~IsFinite(r_squared[1])

\* a true mixture of independent references, fitted and scored
C3_Witness ==
    /\ pc = "scored" /\ FittedByMinimize
    /\ LinearlyIndependent(styrene_spectrum, polystyrene_spectrum)
    /\ \E a \in MixtureCoefficients \ {F(0)}, b \in MixtureCoefficients \ {F(0)} :
          /\ IsMixture(a, b)
          /\ a # b
          /\ fit_result[1] = <<a, b>>
    /\ r_squared = Returned(F(1))

\* C4: R-squared guards against SS_tot = 0: for a constant observed spectrum
\* the result is reported as undefined (None or nan); no value that only a
\* division by SS_tot = 0 can produce (+inf, -inf) comes out.
C4_ZeroVarianceReportedUndefined ==
    (r_squared # Unset /\ SS_tot_of(sample_spectrum) = F(0)) =>
        r_squared[1] \in {PyNone, NaN}

\* C5: when the bounded optimizer does not converge, deconvolution surfaces a
\* failure; the non-converged iterate is not returned as a coefficient pair.
C5_NonConvergenceSurfaced ==
    (fit_result # Unset /\ opt_result # Unset /\ ~opt_result[1].success) =>
        ~IsPair(fit_result[1])

----------------------------------------------------------------------------
(* Properties of process_samples (SpecProcess) *)

\* C6: process_samples does not return lists when the sample table and the
\* volume table have different numbers of rows.
C6_RowCountsValidated ==
    pc = "returned" => NumRowsOf(data_df) = NumRowsOf(volumes_df)

\* C7: after the k-th iteration the four lists have length k; when
\* process_samples returns on a table of n rows they have length n, and entry
\* k of each is derived from row k of the sample table and row k of the
\* volume table.
C7_ListsParallelAndInRowOrder ==
    /\ pc = "process_samples" =>
          \A n \in 1..4 : Len(listVars[n]) = i
    /\ pc = "returned" =>
          /\ \A n \in 1..4 : Len(listVars[n]) = NumRowsOf(data_df)
          /\ \A k \in 1..NumRowsOf(data_df) :
                /\ <<styrene_components_pred[k], ps_components_pred[k]>> =
                      fit_spectra(impl, deconvolution_method,
                                  unknown_spectrum(data_df, k - 1, range_start, range_end),
                                  styrene_spectrum, polystyrene_spectrum)
                /\ styrene_components_actual[k] =
                      FDiv(FMul(volumes_df.cell[k - 1]["Styrene"], <<25, 1000>>), F(300))
                /\ ps_components_actual[k] =
                      FDiv(FMul(volumes_df.cell[k - 1]["Polystyrene"], <<25, 100>>), F(300))

\* process_samples returned on two different rows with two different volume
\* rows
C7_Witness ==
    /\ pc = "returned"
    /\ NumRowsOf(data_df) = 2
    /\ data_df.cell[0]["221"] # data_df.cell[1]["221"]
    /\ styrene_components_pred[1] # styrene_components_pred[2]
    /\ styrene_components_actual[1] # styrene_components_actual[2]
    /\ ps_components_actual[1] # ps_components_actual[2]

\* C8: every fit uses exactly the indexes [range_start, range_end) of the
\* observed spectrum and of both reference spectra, so that the three vectors
\* have the length range_end - range_start; in process_samples and in main_4.
C8_FitUsesTheRange ==
    fit_site # Unset =>
        /\ fit_site[1].observed = <<range_start, range_end>>
        /\ fit_site[1].styrene = <<range_start, range_end>>
        /\ fit_site[1].polystyrene = <<range_start, range_end>>

----------------------------------------------------------------------------
(* Properties of process_samples on reference rows (SpecBatch) *)

\* row j (from 1) of data_df holds the first row of the reference table
RowIs(j, reference) ==
    \A c \in Range(ProcessColumns) \ {"Row/Col"} :
       data_df.cell[j - 1][c] = reference.cell[0][c]

----------------------------------------------------------------------------
(* Properties of the calibration step (SpecRegression) *)

\* the component whose split the train/test variables hold, as
\* <<coefficients, concentrations, fitted model>>
SplitOf ==
    IF pc \in {"regress_styrene", "split_polystyrene"}
    THEN <<styrene_components_pred, styrene_components_actual, regr_styrene>>
    ELSE <<ps_components_pred, ps_components_actual, regr_polystyrene>>

HasSplit == pc \in {"regress_styrene", "split_polystyrene",
                    "regress_polystyrene", "regressed"}
HasModel == pc \in {"split_polystyrene", "regressed"}

\* C12: of n (coefficient, concentration) pairs with n > 20 the training set
\* is the pairs before the last 20 and the test set the last 20 pairs, both in
\* input order; for every n the two sets are disjoint and together hold every
\* pair; the model is the least-squares line of the training pairs only, and
\* MSE and R-squared are those of its predictions on the test pairs only.
C12_SplitLastTwentyTrainOnRest ==
    /\ HasSplit =>
          LET n == Len(SplitOf[1])
          IN  /\ x_train \o x_test = SplitOf[1]
              /\ y_train \o y_test = SplitOf[2]
              /\ Len(x_train) = Len(y_train) /\ Len(x_test) = Len(y_test)
              /\ n > TestSize =>
                    /\ x_train = SubSeq(SplitOf[1], 1, n - TestSize)
                    /\ x_test = SubSeq(SplitOf[1], n - TestSize + 1, n)
                    /\ y_train = SubSeq(SplitOf[2], 1, n - TestSize)
                    /\ y_test = SubSeq(SplitOf[2], n - TestSize + 1, n)
    /\ HasModel =>
          LET n == Len(SplitOf[1])
              head == n - TestSize
              model == LinearRegression_fit(SubSeq(SplitOf[1], 1, head),
                                            SubSeq(SplitOf[2], 1, head))
              held_x == SubSeq(SplitOf[1], head + 1, n)
              held_y == SubSeq(SplitOf[2], head + 1, n)
          IN  /\ SplitOf[3] = Returned(model)
              /\ y_pred = Returned(predict(model, held_x))
              /\ metrics = Returned(
                    [mse |-> mean_squared_error(held_y, predict(model, held_x)),
                     r2 |-> r2_score(held_y, predict(model, held_x))])

\* both models are fitted, on two training pairs each, of lists that are not
\* constant and do not lie on a line
C12_Witness ==
    /\ pc = "regressed"
    /\ Len(x_train) = 2 /\ Len(x_test) = TestSize
    /\ x_train[1] # x_train[2]
    /\ regr_styrene[1].coef # F(0) /\ regr_polystyrene[1].coef # F(0)
    /\ regr_styrene[1] # regr_polystyrene[1]
    /\ metrics[1].mse # F(0)

\* the pairs of the component being calibrated all lie on y = m * x + b
OnLine(m, b) ==
    \A k \in 1..Len(SplitOf[1]) :
       SplitOf[2][k] = FAdd(FMul(F(m), SplitOf[1][k]), F(b))

TwoDistinct(x) == \E j \in 1..Len(x), k \in 1..Len(x) : x[j] # x[k]

\* C20: fitted on noise-free training pairs (x, m*x + b) with at least two
\* distinct x, the calibration model has slope m and intercept b, and on test
\* pairs of the same line it reports MSE 0 and R-squared 1.
C20_NoiseFreeLineRecovered ==
    \A m \in 0..3, b \in 0..1 :
       (HasModel /\ OnLine(m, b) /\ TwoDistinct(x_train)) =>
          /\ SplitOf[3][1].coef = F(m)
          /\ SplitOf[3][1].intercept = F(b)
          /\ metrics[1].mse = F(0)
          /\ metrics[1].r2 = F(1)

\* the polystyrene model is fitted on two distinct points of a line with a
\* slope and an intercept other than 0, and scored on twenty points of it
C20_Witness ==
    /\ pc = "regressed"
    /\ OnLine(3, 1)
    /\ TwoDistinct(x_train) /\ TwoDistinct(x_test)
    /\ regr_polystyrene = Returned([coef |-> F(3), intercept |-> F(1)])
    /\ metrics = Returned([mse |-> F(0), r2 |-> F(1)])

----------------------------------------------------------------------------
(* Properties of the loaders (SpecLoad) *)

Unreadable == path.state \in {"missing", "empty", "unparsable"}

\* C13: called on a file that is missing or cannot be parsed, each of the four
\* loaders logs a message and returns an empty result (an empty table or
\* None); it does not raise.
C13_UnreadableFileLoggedAndEmpty ==
    (loaded # Unset /\ Unreadable) =>
        /\ loaded[1].kind \in {"DataFrame", "None"}
        /\ loaded[1].frame = EmptyFrame
        /\ log # <<>>

\* the number of columns load_data_new labels
Expected == wavelength_range[2] - wavelength_range[1] + 2

\* C23: load_data_new on a readable file labels the first column 'Row/Col'
\* and the k-th following column with the wavelength start_wavelength + k - 1,
\* the last one being end_wavelength, and leaves the values where they were;
\* for a file that does not have end_wavelength - start_wavelength + 2
\* columns it returns an empty table.
C23_LabelledOrEmpty ==
    (loader = "load_data_new" /\ path.state = "ok" /\ pc # "load") =>
       /\ loaded[1].kind = "DataFrame"
       /\ IF Len(path.table.columns) = Expected
          THEN LET df == loaded[1].frame
               IN  /\ Len(df.columns) = Expected
                   /\ df.columns[1] = "Row/Col"
                   /\ \A k \in 1..(Expected - 1) :
                         df.columns[k + 1] = Label(wavelength_range[1] + k - 1)
                   /\ df.index = path.table.index
                   /\ \A r \in Range(df.index), k \in 1..Expected :
                         df.cell[r][df.columns[k]] =
                            path.table.cell[r][path.table.columns[k]]
          ELSE loaded[1].frame = EmptyFrame

----------------------------------------------------------------------------
(* Properties of BC main (SpecMain) *)

\* raw - background at row r, column w of the tables main loaded
PlateCorrected(r, w) == FSub(raw_df.cell[r][w], plate_data.cell[r][w])

\* C16: the table main saves has had the plate background subtracted and
\* then the blank row (row 11 in main) subtracted from every row.
C16_SavedTableBackgroundAndBlankCorrected ==
    saved # Unset =>
       \A r \in Range(raw_df.index), w \in Range(saved[1].columns) :
          saved[1].cell[r][w] =
             FSub(PlateCorrected(r, w), PlateCorrected(MainBlankRow, w))

----------------------------------------------------------------------------
(* Properties of curve_fitting_lin_reg as a whole (SpecRun) *)

Missing == {p \in InputFiles : files[p] = "missing"}

\* C14: with one unreadable input file, for which the CF loaders return
\* their empty table, the run of curve_fitting_lin_reg is not aborted: no
\* exception leaves the function, so the statements that process the other
\* files are still executed and the run reaches its end.
C14_OneUnreadableFileDoesNotAbort ==
    (impl = "CF" /\ Cardinality(Missing) = 1) => pc # "raised"

Did(step, dataset) == \E k \in 1..Len(steps) : steps[k] = <<step, dataset>>

DidBefore(step, dataset, k) == \E j \in 1..(k - 1) : steps[j] = <<step, dataset>>

\* C15: in curve_fitting_lin_reg every dataset is background-corrected
\* before it is deconvolved and deconvolved before a calibration model is
\* applied to it, and a calibration model is applied only after both models
\* have been fitted.
C15_CorrectThenDeconvolveThenApply ==
    \A k \in 1..Len(steps) :
        /\ steps[k][1] = "deconvolve" => DidBefore("correct", steps[k][2], k)
        /\ steps[k][1] = "apply" =>
              /\ DidBefore("deconvolve", steps[k][2], k)
              /\ DidBefore("fit", "styrene", k)
              /\ DidBefore("fit", "polystyrene", k)

----------------------------------------------------------------------------
(* Properties of the volume-to-concentration conversions (SpecConvert) *)

\* C19: every place that converts volumes to concentrations uses the same
\* factors and applies them once: whichever of process_samples, spectra_pca,
\* ml_screening and verify_models is called, the concentration it uses for
\* a sample is the value it was given for that sample times 0.025 / 300 in
\* column 0 (styrene) and times 0.25 / 300 in column 1 (polystyrene).
C19_SameFactorsAppliedOnce ==
    \A k \in 1..Len(steps) :
       /\ Len(steps[k][3]) = Len(steps[k][2])
       /\ \A j \in 1..Len(steps[k][2]) :
             steps[k][3][j] =
                <<FDiv(FMul(steps[k][2][j][1], <<25, 1000>>), F(300)),
                  FDiv(FMul(steps[k][2][j][2], <<25, 100>>), F(300))>>

\* the four places have converted a table of two samples with volumes that
\* are not zero, and agree on the concentrations
C19_Witness ==
    /\ \A site \in {"process_samples", "spectra_pca", "ml_screening", "verify_models"} :
          Called(site) # {}
    /\ Len(volumes_df.index) = 2
    /\ iloc(volumes_df, 0, 0) # F(0) /\ iloc(volumes_df, 0, 1) # F(0)
    /\ volumes_abs[1][1] = <<styrene_components_actual[1], ps_components_actual[1]>>
    /\ steps[1][1] = "spectra_pca" /\ volumes_abs[1] = steps[1][3]
    /\ styrene_components_actual[1] # ps_components_actual[1]

----------------------------------------------------------------------------
(* Properties of calibration and prediction (SpecCalibrate) *)

\* the least-squares line through the pairs (x[k], y[k])
LineThrough(x, y) ==
    LET sxx == Dot(VSub(x, [k \in 1..Len(x) |-> Mean(x)]),
                   VSub(x, [k \in 1..Len(x) |-> Mean(x)]))
        sxy == Dot(VSub(x, [k \in 1..Len(x) |-> Mean(x)]),
                   VSub(y, [k \in 1..Len(y) |-> Mean(y)]))
        slope == IF sxx = F(0) THEN F(0) ELSE FDiv(sxy, sxx)
    IN  [coef |-> slope, intercept |-> FSub(Mean(y), FMul(slope, Mean(x)))]

Training(list) == SubSeq(list, 1, Len(list) - TestSize)

OnTheLine(regr, x, y) ==
    /\ Len(y) = Len(x)
    /\ \A k \in 1..Len(x) : y[k] = FAdd(FMul(regr.coef, x[k]), regr.intercept)

\* C21: the styrene model is the line fitted to the (styrene coefficient,
\* styrene concentration) training pairs and the polystyrene model the line
\* fitted to the polystyrene pairs, also after x_train and y_train have been
\* assigned again for the second fit; every later prediction of styrene
\* concentrations is the styrene model at the styrene coefficients and every
\* prediction of polystyrene concentrations the polystyrene model at the
\* polystyrene coefficients.
C21_EachModelOnItsOwnComponent ==
    /\ regr_styrene # Unset =>
          regr_styrene[1] = LineThrough(Training(styrene_components_pred),
                                        Training(styrene_components_actual))
    /\ regr_polystyrene # Unset =>
          regr_polystyrene[1] = LineThrough(Training(ps_components_pred),
                                            Training(ps_components_actual))
    /\ pc = "predicted" =>
          /\ OnTheLine(regr_styrene[1], env.styrene_components_pred,
                       env.styrene_concs_pred[1])
          /\ OnTheLine(regr_polystyrene[1], env.ps_components_pred,
                       env.ps_concs_pred[1])

\* the crude dataset of CF has been predicted with two models that differ,
\* after x_train was assigned the polystyrene coefficients, and neither
\* prediction is what the other model gives
C21_Witness ==
    /\ pc = "predicted" /\ env.dataset = "crude"
    /\ regr_styrene[1] # regr_polystyrene[1]
    /\ x_train = Training(ps_components_pred)
    /\ x_train # Training(styrene_components_pred)
    /\ ~OnTheLine(regr_polystyrene[1], env.styrene_components_pred,
                  env.styrene_concs_pred[1])
    /\ ~OnTheLine(regr_styrene[1], env.ps_components_pred, env.ps_concs_pred[1])

----------------------------------------------------------------------------
(* Properties of the table helpers (SpecHelper) *)

\* the values of column c in the input rows first..last
InputRows(c, first, last) ==
    [j \in 1..(last - first + 1) |-> call.df.cell[first + j - 1][c]]

Least(a, b) == IF a < b THEN a ELSE b

\* the sample variance: (sum of squares - (sum)^2 / m) / (m - 1)
SampleVariance(x) ==
    FDiv(FSub(SumSeq(VSquare(x)), FDiv(FMul(SumSeq(x), SumSeq(x)), F(Len(x)))),
         F(Len(x) - 1))

\* C24: group_and_calculate on a table of n rows indexed 0..n-1 returns
\* ceil(n / group_size) rows indexed from 0; row k holds, in every column,
\* the mean (for 'mean') or the sample standard deviation (for 'std') of the
\* input rows k * group_size to min((k + 1) * group_size, n) - 1; for another
\* operation the call fails and returns no table.
C24_GroupRowsAreMeansOrDeviations ==
    (call # Unset /\ call.name = "group_and_calculate" /\ pc # "call") =>
       LET n == Len(call.df.index)
           g == call.group_size
           out == returned[1]
       IN  IF call.operation \in {"mean", "std"}
           THEN /\ out.kind = "DataFrame"
                /\ out.frame.index = [k \in 1..((n + g - 1) \div g) |-> k - 1]
                /\ out.frame.columns = call.df.columns
                /\ \A k \in Range(out.frame.index), c \in Range(call.df.columns) :
                      LET x == InputRows(c, k * g, Least((k + 1) * g, n) - 1)
                      IN  out.frame.cell[k][c] =
                             IF call.operation = "mean"
                             THEN FDiv(SumSeq(x), F(Len(x)))
                             ELSE Sqrt(SampleVariance(x))
           ELSE out.kind = "raise" /\ pc = "raised"

\* a table is grouped into a full group and a shorter last one whose means
\* differ, and the deviation of the full group is not zero
C24_Witness ==
    /\ call # Unset /\ call.name = "group_and_calculate" /\ pc = "returned"
    /\ call.group_size = 3 /\ Len(call.df.index) = 4
    /\ Len(returned[1].frame.index) = 2
    /\ \/ /\ call.operation = "mean"
          /\ returned[1].frame.cell[0]["220"] # returned[1].frame.cell[1]["220"]
          /\ returned[1].frame.cell[0]["220"] # call.df.cell[0]["220"]
       \/ /\ call.operation = "std"
          /\ returned[1].frame.cell[0]["221"] # Sqrt(F(0))
          /\ returned[1].frame.cell[1]["221"] = Sqrt(NaN)

Greater(a, b) == IF a > b THEN a ELSE b

\* row j of the joined table pairs sample name j with data row b + j
PairedFrom(joined, b) ==
    LET n == Len(call.df.index)
        m == Len(call.sample_names.index)
    IN  /\ joined.index = [k \in 1..Greater(m, n - b) |-> k - 1]
        /\ joined.columns = <<"Sample">> \o call.df.columns
        /\ \A j \in Range(joined.index) :
              /\ joined.cell[j]["Sample"] =
                    IF j < m THEN call.sample_names.cell[j]["Sample"] ELSE NaN
              /\ \A c \in Range(call.df.columns) :
                    joined.cell[j][c] =
                       IF b + j < n THEN call.df.cell[b + j][c] ELSE NaN

----------------------------------------------------------------------------
(* Properties of ml_screening (SpecScreening) *)

\* C26: when ml_screening returns, row i of the figure is titled with the
\* i-th model of the dictionary and shows that model's predictions and the
\* R-squared and MSE values recorded for it in row i of the metrics table.
C26_FigureRowShowsItsModel ==
    (call.name = "ml_screening" /\ pc = "returned") =>
       /\ Len(env.axes) = Len(ModelNames) /\ Len(returned[1]) = Len(ModelNames)
       /\ \A k \in 1..Len(ModelNames) :
             /\ env.axes[k].name = ModelNames[k]
             /\ returned[1][k].name = ModelNames[k]
             /\ env.axes[k].y_pred = call.predictions[k]
             /\ env.axes[k].values = returned[1][k].values

----------------------------------------------------------------------------
(* Frame of spectra_pca (SpecConvert) *)

\* C28: spectra_pca leaves the caller's volumes array as the caller built it,
\* so every call of it starts from the volumes of the table and uses the
\* concentrations the factors give for them once.
C28_CallerArrayUnchanged ==
    /\ volumes = to_numpy(volumes_df)
    /\ \A k \in Called("spectra_pca") :
          /\ steps[k][2] = to_numpy(volumes_df)
          /\ steps[k][3] = imul_columns(to_numpy(volumes_df))

----------------------------------------------------------------------------
(* Properties of the feature matrix (SpecFeatures) *)

\* C27: the feature matrix of ml_screening and of verify_models holds, for
\* every sample, the absorbances at the indexes [40, 101) of the corrected
\* table, the spectrum process_samples takes with range 40..101, however
\* many volume columns stand in front.
C27_FeaturesAreTheFittedRange ==
    (call.name \in {"ml_screening", "verify_models"} /\ pc = "returned") =>
       \A r \in 1..Len(call.absorbances) :
          returned[1].X[r] = spectrum_values(call.absorbances, r - 1,
                                             Main4RangeStart, Main4RangeEnd)

----------------------------------------------------------------------------
(* Calibration on twenty samples or fewer (SpecRegression) *)

\* C29: with at most 20 samples the positional split leaves the training set
\* empty and puts every sample in the test set, and the calibration fails: the
\* fit raises, and no model is ever returned, of either component.
C29_NoModelFromTwentyOrFewer ==
    Len(styrene_components_pred) <= TestSize =>
       /\ pc \in {"split_styrene", "regress_styrene", "raised"}
       /\ regr_styrene = Unset /\ regr_polystyrene = Unset
       /\ pc \in {"regress_styrene", "raised"} =>
             /\ x_train = <<>> /\ y_train = <<>>
             /\ x_test = styrene_components_pred
             /\ y_test = styrene_components_actual

\* the fit of exactly twenty samples has raised
C29_Witness ==
    /\ pc = "raised"
    /\ Len(styrene_components_pred) = TestSize
    /\ x_train = <<>> /\ Len(x_test) = TestSize
    /\ regr_styrene = Unset

----------------------------------------------------------------------------
(* Failure of a fit inside process_samples (SpecFailure) *)

\* the fit of row i came to None
FitFailed == fit_result # Unset /\ fit_result[1] = PyNone

\* process_samples has stopped at row i: the rows before it have their
\* entries in the four lists, which are not returned, and row i and the rows
\* after it have none
StoppedAtRow ==
    /\ pc = "raised"
    /\ i < NumRowsOf(data_df)
    /\ \A k \in 1..4 : Len(listVars[k]) = i

\* C30 as stated: whenever the method raises or returns None for row i,
\* fit_spectra logs its message and returns None, and process_samples stops
\* at row i without returning.
C30_FitSpectraLogsAndProcessStops ==
    FitFailed =>
       /\ log = <<"Error during spectrum fitting">>
       /\ StoppedAtRow

\* C30, amended: when the method raises, fit_spectra logs its message and
\* returns None; when scipy_curve_fit returns None it has logged its own
\* message and fit_spectra logs nothing.  Either way process_samples stops at
\* row i without returning, and it stops for no other reason and logs
\* nothing else.
C30_Amended ==
    /\ FitFailed =>
          /\ StoppedAtRow
          /\ log = IF deconvolution_method = "scipy_curve_fit"
                   THEN <<"Error in curve fitting">>
                   ELSE <<"Error during spectrum fitting">>
    /\ pc = "raised" => FitFailed
    /\ ~FitFailed => log = <<>>
    /\ pc = "returned" => \A k \in 1..4 : Len(listVars[k]) = NumRowsOf(data_df)

\* the first row was fitted and the second was not
C30_Witness ==
    /\ FitFailed /\ pc = "raised"
    /\ i = 1 /\ NumRowsOf(data_df) = 2
    /\ Len(styrene_components_pred) = 1
    /\ log # <<>>

============================================================================
